---------------------------- MODULE Spec2Model ----------------------------
(***************************************************************************)
(* A model of kward/go-osc: the OSC 1.0 codec (padded strings, blobs,      *)
(* Messages, Bundles), the address-pattern dispatcher and the server's     *)
(* receive loop.                                                           *)
(*                                                                         *)
(* Representation.  A byte is a number 0..255 and a Go string or []byte is *)
(* a sequence of bytes.  A 32-bit word (int32, the bits of a float32) is   *)
(* the signed number with those bits; a 64-bit quantity (int64, the bits   *)
(* of a float64, a Timetag) is the pair <<hi, lo>> of its two words.  A Go *)
(* interface{} value is [type |-> <dynamic type>, val |-> <sequence>].     *)
(* An error is its name; "" is the nil error.  A reader over a byte slice  *)
(* is [data, size]: bytes beyond Len(data) and up to size are zero (the    *)
(* unwritten tail of a receive buffer).  Inputs stay below bufio's 4096    *)
(* byte buffer, so a Read returns min(asked, remaining) bytes.             *)
(***************************************************************************)
EXTENDS Integers, Sequences, FiniteSets, TLC

\* ---------------------------------------------------------------- bounds
MaxArgs == 2        \* arguments per input Message
MaxNodes == 3       \* Bundles (parent and nested, together) per input Bundle
MaxTime == 1        \* the clock stops here
MaxRetries == 10    \* consecutive transient errors counted (the count saturates)
MaxDatagrams == 2   \* datagrams received by one Serve
MaxDispatches == 2  \* Dispatch calls of the application
MaxLen == 5         \* bytes of an input string or blob
MaxCalls == 3       \* ReceivePacket calls of an application that calls it itself

\* ------------------------------------------------------- program constants
NUL == 0
Slash == 47
Hash == 35
Comma == 44
TagInt32 == 105
TagInt64 == 104
TagFloat32 == 102
TagFloat64 == 100
TagString == 115
TagBlob == 98
TagTimetag == 116
TagTrue == 84
TagFalse == 70
TagNil == 78
ReceiveBufferSize == 65535
InitialDelay == 5
MaxDelay == 1000

\* The letters of the input alphabets.
Letter == [a |-> 97, b |-> 98, c |-> 99]
ChA == Letter.a
ChB == Letter.b
ChC == Letter.c
ChDot == 46
ChStar == 42
ChQuestion == 63
ChLBrace == 123
ChRBrace == 125
ChLBracket == 91
ChRBracket == 93
ChSpace == 32
ChLParen == 40
ChRParen == 41
ChBar == 124
ChBackslash == 92

bundleTag == <<35, 98, 117, 110, 100, 108, 101>>

Min(a, b) == IF a < b THEN a ELSE b
Max(a, b) == IF a < b THEN b ELSE a
SetMin(S) == CHOOSE x \in S : \A y \in S : x <= y
Zeros(n) == [i \in 1..n |-> 0]

\* ----------------------------------------------------- big-endian words
\* binary.Write(buf, binary.BigEndian, int32(v)): two's complement, 4 bytes.
\* An alternative byte order, used to test that formulas depend on BE32.
BE32_LittleEndian(v) ==
  LET w == IF v < 0 THEN (v + 2147483647) + 1 ELSE v
      top == (w \div 16777216) + (IF v < 0 THEN 128 ELSE 0)
  IN  <<w % 256, (w \div 256) % 256, (w \div 65536) % 256, top>>

BE32(v) ==
  LET w == IF v < 0 THEN (v + 2147483647) + 1 ELSE v
      top == (w \div 16777216) + (IF v < 0 THEN 128 ELSE 0)
  IN  <<top, (w \div 65536) % 256, (w \div 256) % 256, w % 256>>

\* binary.Read(reader, binary.BigEndian, &int32): the signed word of 4 bytes.
FromBE32(b) ==
  LET low == ((b[1] % 128) * 16777216) + (b[2] * 65536) + (b[3] * 256) + b[4]
  IN  IF b[1] >= 128 THEN (low - 2147483647) - 1 ELSE low

BE64(w) == BE32(w[1]) \o BE32(w[2])
FromBE64(b) == <<FromBE32(SubSeq(b, 1, 4)), FromBE32(SubSeq(b, 5, 8))>>

\* ------------------------------------------------------------- Timetag
\* Timetag.ToByteArray: the 8 bytes of the 64-bit wire value.
ToByteArray(tt) == BE64(tt)
\* NewTimetagFromTimetag(tt): the Timetag argument of a raw wire value.
NewTimetagFromTimetag(tt) == [type |-> "Timetag", val |-> tt]
\* NewBundle(timetagToTime(tt)).Timetag: the Timetag of a decoded Bundle.
NewBundleTimetag(tt) == tt

\* ------------------------------------------------------ padded strings
\* The padding that fills up to the next boundary and is none on a boundary,
\* to test that formulas depend on padBytesNeeded.
padBytesNeeded_Minimal(elementLen) == (4 - (elementLen % 4)) % 4
padBytesNeeded(elementLen) == 4 * ((elementLen \div 4) + 1) - elementLen

\* writePaddedString: the bytes appended to the buffer and the count returned.
writePaddedString(str) ==
  LET numPadBytes == padBytesNeeded(Len(str))
  IN  [bytes |-> str \o Zeros(numPadBytes), n |-> Len(str) + numPadBytes]

\* writeBlob: the bytes appended to the buffer and the count returned.
writeBlob(data) ==
  LET numPadBytes == padBytesNeeded(Len(data))
  IN  [bytes |-> BE32(Len(data)) \o data \o Zeros(numPadBytes),
       n |-> 4 + Len(data) + numPadBytes]

\* ------------------------------------------------------------- readers
NewReader(data, size) == [data |-> data, size |-> size]
ByteAt(R, i) == IF i <= Len(R.data) THEN R.data[i] ELSE 0
Bytes(R, from, to) == [i \in 1..(to - from + 1) |-> ByteAt(R, from + i - 1)]

\* bufio.Reader.ReadString(0) from offset pos: the index of the delimiter, or
\* 0 when the input ends before one.
NulIndex(R, pos) ==
  LET inData == {i \in (pos + 1)..Len(R.data) : R.data[i] = NUL}
      tail == Max(Len(R.data), pos) + 1
  IN  IF inData # {} THEN SetMin(inData)
      ELSE IF tail <= R.size THEN tail ELSE 0

\* readPaddedString: [str, n, err, pos], pos the reader's offset afterwards.
readPaddedString(R, pos) ==
  LET z == NulIndex(R, pos)
      str == Bytes(R, pos + 1, z - 1)
      padLen == padBytesNeeded(Len(str)) - 1
      avail == R.size - z
  IN  IF z = 0
      THEN [str |-> <<>>, n |-> 0, err |-> "EOF", pos |-> R.size]
      ELSE IF padLen > 0
      THEN IF avail = 0
           THEN [str |-> <<>>, n |-> 0, err |-> "EOF", pos |-> z]
           ELSE [str |-> str, n |-> (z - pos) + padLen, err |-> "",
                 pos |-> z + Min(padLen, avail)]
      ELSE [str |-> str, n |-> z - pos, err |-> "", pos |-> z]

\* binary.Read of a fixed-size value of k bytes (io.ReadFull underneath).
readFixed(R, pos, k) ==
  IF R.size - pos >= k
  THEN [bytes |-> Bytes(R, pos + 1, pos + k), err |-> "", pos |-> pos + k]
  ELSE [bytes |-> <<>>,
        err |-> IF R.size - pos = 0 THEN "EOF" ELSE "unexpected EOF",
        pos |-> R.size]

\* A readBlob whose length is an int32, which binary.Read accepts, to test
\* that formulas depend on readBlob.
readBlob_Int32(R, pos) ==
  LET l == readFixed(R, pos, 4)
      blobLen == FromBE32(l.bytes)
      got == Min(blobLen, R.size - l.pos)
      pad == Min(padBytesNeeded(blobLen), R.size - (l.pos + got))
  IN  IF l.err # "" THEN [blob |-> <<>>, n |-> 0, err |-> l.err, pos |-> l.pos]
      ELSE IF blobLen < 0
      THEN [blob |-> <<>>, n |-> 0, err |-> "panic: makeslice: len out of range",
            pos |-> l.pos]
      ELSE [blob |-> Bytes(R, l.pos + 1, l.pos + got) \o Zeros(blobLen - got),
            n |-> 4 + blobLen + padBytesNeeded(blobLen), err |-> "",
            pos |-> l.pos + got + pad]

\* readBlob: `var blobLen int` is not a fixed-size type, so binary.Read
\* refuses it before reading a byte.
readBlob(R, pos) ==
  [blob |-> <<>>, n |-> 0, err |-> "binary.Read: invalid type *int", pos |-> pos]

\* ------------------------------------------------------------ packets
NilPacket == [kind |-> "nil"]
NewMessage(addr, args) == [kind |-> "Message", Address |-> addr, Arguments |-> args]
\* (*Message)(nil): a Message pointer that points to nothing.
NilMessage == [kind |-> "nil Message"]
NewBundle(tt) ==
  [kind |-> "Bundle", Timetag |-> tt, Messages |-> <<>>, Bundles |-> <<>>]

SupportedTypes ==
  {"nil", "bool", "int32", "int64", "float32", "float64", "string", "[]byte",
   "Timetag"}

\* getTypeTag: the tag of one argument, <<>> with an error for any other type.
getTypeTag(arg) ==
  CASE arg.type = "bool" -> IF arg.val = <<1>> THEN <<TagTrue>> ELSE <<TagFalse>>
    [] arg.type = "nil" -> <<TagNil>>
    [] arg.type = "int32" -> <<TagInt32>>
    [] arg.type = "float32" -> <<TagFloat32>>
    [] arg.type = "string" -> <<TagString>>
    [] arg.type = "[]byte" -> <<TagBlob>>
    [] arg.type = "int64" -> <<TagInt64>>
    [] arg.type = "float64" -> <<TagFloat64>>
    [] arg.type = "Timetag" -> <<TagTimetag>>
    [] OTHER -> <<>>

\* The payload bytes Message.MarshalBinary writes for one argument.
argPayload(arg) ==
  CASE arg.type = "int32" -> BE32(arg.val[1])
    [] arg.type = "float32" -> BE32(arg.val[1])
    [] arg.type = "string" -> writePaddedString(arg.val).bytes
    [] arg.type = "[]byte" -> writeBlob(arg.val).bytes
    [] arg.type = "int64" -> BE64(arg.val)
    [] arg.type = "float64" -> BE64(arg.val)
    [] arg.type = "Timetag" -> ToByteArray(arg.val)
    [] OTHER -> <<>>

\* The argument loop of Message.MarshalBinary from argument i on.
RECURSIVE marshalArguments(_, _, _, _)
marshalArguments(args, i, typetags, payload) ==
  IF i > Len(args)
  THEN [typetags |-> typetags, payload |-> payload, err |-> ""]
  ELSE IF args[i].type \notin SupportedTypes
  THEN [typetags |-> typetags, payload |-> payload, err |-> "OSC - unsupported type"]
  ELSE marshalArguments(args, i + 1, typetags \o getTypeTag(args[i]),
                        payload \o argPayload(args[i]))

\* Message.MarshalBinary: [bytes, err].  It begins with msg.Address, which
\* on a nil Message is a nil pointer dereference.
MessageMarshalBinary(msg) ==
  IF msg = NilMessage
  THEN [bytes |-> <<>>, err |-> "panic: nil pointer dereference"]
  ELSE
    LET a == marshalArguments(msg.Arguments, 1, <<Comma>>, <<>>)
    IN  IF a.err # ""
        THEN [bytes |-> <<>>, err |-> a.err]
        ELSE [bytes |-> writePaddedString(msg.Address).bytes
                         \o writePaddedString(a.typetags).bytes \o a.payload,
              err |-> ""]

\* Message.TypeTags: [tags, err].
RECURSIVE typeTagsFrom(_, _, _)
typeTagsFrom(args, i, tags) ==
  IF i > Len(args) THEN [tags |-> tags, err |-> ""]
  ELSE IF args[i].type \notin SupportedTypes
  THEN [tags |-> <<>>, err |-> "Unsupported type"]
  ELSE typeTagsFrom(args, i + 1, tags \o getTypeTag(args[i]))

TypeTags(msg) ==
  IF msg = NilMessage THEN [tags |-> <<>>, err |-> "message is nil"]
  ELSE typeTagsFrom(msg.Arguments, 1, <<Comma>>)

\* The loop of readArguments over the type tags from tag i on:
\* [args, err, start, pos].
RECURSIVE readArgumentLoop(_, _, _, _, _, _)
readArgumentLoop(R, tags, i, pos, start, args) ==
  IF i > Len(tags)
  THEN [args |-> args, err |-> "", start |-> start, pos |-> pos]
  ELSE
    LET c == tags[i]
        fail(e, p) == [args |-> args, err |-> e, start |-> start, pos |-> p]
    IN  CASE c \in {TagInt32, TagFloat32} ->
               LET r == readFixed(R, pos, 4)
                   t == IF c = TagInt32 THEN "int32" ELSE "float32"
               IN  IF r.err # "" THEN fail(r.err, r.pos)
                   ELSE readArgumentLoop(R, tags, i + 1, r.pos, start + 4,
                          Append(args, [type |-> t, val |-> <<FromBE32(r.bytes)>>]))
          [] c \in {TagInt64, TagFloat64} ->
               LET r == readFixed(R, pos, 8)
                   t == IF c = TagInt64 THEN "int64" ELSE "float64"
               IN  IF r.err # "" THEN fail(r.err, r.pos)
                   ELSE readArgumentLoop(R, tags, i + 1, r.pos, start + 8,
                          Append(args, [type |-> t, val |-> FromBE64(r.bytes)]))
          [] c = TagString ->
               LET r == readPaddedString(R, pos)
               IN  IF r.err # "" THEN fail(r.err, r.pos)
                   ELSE readArgumentLoop(R, tags, i + 1, r.pos,
                          start + Len(r.str) + padBytesNeeded(Len(r.str)),
                          Append(args, [type |-> "string", val |-> r.str]))
          [] c = TagBlob ->
               LET r == readBlob(R, pos)
               IN  IF r.err # "" THEN fail(r.err, r.pos)
                   ELSE readArgumentLoop(R, tags, i + 1, r.pos, start + r.n,
                          Append(args, [type |-> "[]byte", val |-> r.blob]))
          [] c = TagTimetag ->
               LET r == readFixed(R, pos, 8)
               IN  IF r.err # "" THEN fail("", r.pos)  \* `return nil`
                   ELSE readArgumentLoop(R, tags, i + 1, r.pos, start + 8,
                          Append(args, NewTimetagFromTimetag(FromBE64(r.bytes))))
          [] c = TagTrue ->
               readArgumentLoop(R, tags, i + 1, pos, start,
                                Append(args, [type |-> "bool", val |-> <<1>>]))
          [] c = TagFalse ->
               readArgumentLoop(R, tags, i + 1, pos, start,
                                Append(args, [type |-> "bool", val |-> <<0>>]))
          [] OTHER -> fail("unsupported type tag", pos)

\* readArguments: [args, err, start, pos].  typetags[0] of an empty type tag
\* string is an index out of range: the goroutine panics.
readArguments(R, pos, start) ==
  LET t == readPaddedString(R, pos)
  IN  IF t.err # ""
      THEN [args |-> <<>>, err |-> t.err, start |-> start, pos |-> t.pos]
      ELSE IF Len(t.str) = 0
      THEN [args |-> <<>>, err |-> "panic: index out of range",
            start |-> start + t.n, pos |-> t.pos]
      ELSE IF t.str[1] # Comma
      THEN [args |-> <<>>, err |-> "unsupported type tag string",
            start |-> start + t.n, pos |-> t.pos]
      ELSE readArgumentLoop(R, Tail(t.str), 1, t.pos, start + t.n, <<>>)

\* readMessage: [pkt, err, start, pos].
readMessage(R, pos, start) ==
  LET a == readPaddedString(R, pos)
      r == readArguments(R, a.pos, start + a.n)
  IN  IF a.err # ""
      THEN [pkt |-> NilPacket, err |-> a.err, start |-> start, pos |-> a.pos]
      ELSE IF r.err # ""
      THEN [pkt |-> NilPacket, err |-> r.err, start |-> r.start, pos |-> r.pos]
      ELSE [pkt |-> NewMessage(a.str, r.args), err |-> "", start |-> r.start,
            pos |-> r.pos]

\* ------------------------------------------------------------- Bundle
\* Bundle.Append: [bundle, err].
BundleAppend(b, pck) ==
  CASE pck.kind = "Bundle" ->
         [bundle |-> [b EXCEPT !.Bundles = Append(@, pck)], err |-> ""]
    [] pck.kind = "Message" ->
         [bundle |-> [b EXCEPT !.Messages = Append(@, pck)], err |-> ""]
    [] OTHER -> [bundle |-> b, err |-> "Unsupported OSC packet type"]

\* Bundle.MarshalBinary: [bytes, err].  elementsMarshal writes the elements of
\* one of the two loops (the Messages, then the Bundles) from element i on.
RECURSIVE BundleMarshalBinary(_)
RECURSIVE elementsMarshal(_, _, _)
elementsMarshal(elems, i, data) ==
  IF i > Len(elems) THEN [bytes |-> data, err |-> ""]
  ELSE
    LET buf == IF elems[i].kind = "Message" THEN MessageMarshalBinary(elems[i])
               ELSE BundleMarshalBinary(elems[i])
    IN  IF buf.err # "" THEN [bytes |-> <<>>, err |-> buf.err]
        ELSE elementsMarshal(elems, i + 1,
                             data \o BE32(Len(buf.bytes)) \o buf.bytes)

BundleMarshalBinary(b) ==
  LET head == writePaddedString(bundleTag).bytes \o ToByteArray(b.Timetag)
      msgs == elementsMarshal(b.Messages, 1, head)
  IN  IF msgs.err # "" THEN [bytes |-> <<>>, err |-> msgs.err]
      ELSE elementsMarshal(b.Bundles, 1, msgs.bytes)

\* Packet.MarshalBinary of a Message or a Bundle.
MarshalBinary(pkt) ==
  IF pkt.kind = "Bundle" THEN BundleMarshalBinary(pkt)
  ELSE MessageMarshalBinary(pkt)

\* ------------------------------------------------------ packet decoding
\* readPacket, readBundle and the element loop of readBundle:
\* [pkt, err, start, pos].  `end` is the caller's total length at every level.
RECURSIVE readPacket(_, _, _, _)
RECURSIVE readBundle(_, _, _, _)
RECURSIVE readBundleLoop(_, _, _, _, _)

readBundleLoop(R, pos, start, end, bundle) ==
  IF ~(start < end)
  THEN [pkt |-> bundle, err |-> "", start |-> start, pos |-> pos]
  ELSE
    LET len == readFixed(R, pos, 4)
        p == readPacket(R, len.pos, start + 4, end)
        a == BundleAppend(bundle, p.pkt)
    IN  IF len.err # ""
        THEN [pkt |-> NilPacket, err |-> len.err, start |-> start, pos |-> len.pos]
        ELSE IF p.err # ""
        THEN [pkt |-> NilPacket, err |-> p.err, start |-> p.start, pos |-> p.pos]
        ELSE IF a.err # ""
        THEN [pkt |-> NilPacket, err |-> a.err, start |-> p.start, pos |-> p.pos]
        ELSE readBundleLoop(R, p.pos, p.start, end, a.bundle)

readBundle(R, pos, start, end) ==
  LET tag == readPaddedString(R, pos)
      tt == readFixed(R, tag.pos, 8)
  IN  IF tag.err # ""
      THEN [pkt |-> NilPacket, err |-> tag.err, start |-> start, pos |-> tag.pos]
      ELSE IF tag.str # bundleTag
      THEN [pkt |-> NilPacket, err |-> "Invalid bundle start tag",
            start |-> start + tag.n, pos |-> tag.pos]
      ELSE IF tt.err # ""
      THEN [pkt |-> NilPacket, err |-> tt.err, start |-> start + tag.n,
            pos |-> tt.pos]
      ELSE readBundleLoop(R, tt.pos, start + tag.n + 8, end,
                          NewBundle(NewBundleTimetag(FromBE64(tt.bytes))))

\* A decoder that takes whatever is not a Bundle for a Message, to test that
\* formulas depend on readPacket.
readPacket_NoSniff(R, pos, start, end) ==
  IF R.size - pos = 0
  THEN [pkt |-> NilPacket, err |-> "EOF", start |-> start, pos |-> pos]
  ELSE IF ByteAt(R, pos + 1) = Hash THEN readBundle(R, pos, start, end)
  ELSE readMessage(R, pos, start)

readPacket(R, pos, start, end) ==
  IF R.size - pos = 0   \* reader.Peek(1) at the end of the input
  THEN [pkt |-> NilPacket, err |-> "EOF", start |-> start, pos |-> pos]
  ELSE IF ByteAt(R, pos + 1) = Slash THEN readMessage(R, pos, start)
  ELSE IF ByteAt(R, pos + 1) = Hash THEN readBundle(R, pos, start, end)
  ELSE [pkt |-> NilPacket, err |-> "", start |-> start, pos |-> pos]

\* ParsePacket(msg): the whole string is the reader's input.
ParsePacket(msg) == readPacket(NewReader(msg, Len(msg)), 0, 0, Len(msg))

\* ------------------------------------------------- address patterns
\* strings.Replace(s, old, new, -1) for a one-character old.
RECURSIVE ReplaceAll(_, _, _)
ReplaceAll(s, old, new) ==
  IF s = <<>> THEN <<>>
  ELSE (IF Head(s) = old THEN new ELSE <<Head(s)>>) \o ReplaceAll(Tail(s), old, new)

\* The replacements of getRegEx, in the order of the code.
Replacements ==
  << <<ChDot, <<ChBackslash, ChDot>>>>,
     <<ChLParen, <<ChBackslash, ChLParen>>>>,
     <<ChRParen, <<ChBackslash, ChRParen>>>>,
     <<ChStar, <<ChDot, ChStar>>>>,
     <<ChLBrace, <<ChLParen>>>>,
     <<Comma, <<ChBar>>>>,
     <<ChRBrace, <<ChRParen>>>>,
     <<ChQuestion, <<ChDot>>>> >>

\* The regular expression source getRegEx builds from an address pattern:
\* replacement k and the ones after it, applied to str.
RECURSIVE ReplaceFrom(_, _)
ReplaceFrom(str, k) ==
  IF k > Len(Replacements) THEN str
  ELSE CHOOSE out \in {ReplaceFrom(next, k + 1) :
                         next \in {ReplaceAll(str, Replacements[k][1],
                                              Replacements[k][2])}} : TRUE
getRegExSource(pattern) == ReplaceFrom(pattern, 1)

\* Go's regexp syntax, for the expressions getRegExSource can build from the
\* model's alphabet: alternation, concatenation, `x*`, `.`, `\c`, groups and
\* character classes of plain characters.  An index 0 means "not found".

\* The index of the `]` closing the class that opens at re[i]; a `]` right
\* after the `[` is a member of the class.
RECURSIVE ClassScan(_, _, _, _)
ClassScan(re, j, hi, first) ==
  IF j > hi THEN 0
  ELSE IF re[j] = ChRBracket /\ ~first THEN j
  ELSE IF re[j] = ChBackslash THEN ClassScan(re, j + 2, hi, FALSE)
  ELSE ClassScan(re, j + 1, hi, FALSE)
ClassEnd(re, i, hi) == ClassScan(re, i + 1, hi, TRUE)

\* The characters of the class re[i..e].
RECURSIVE ClassCharsFrom(_, _, _)
ClassCharsFrom(re, j, e) ==
  IF j >= e THEN {}
  ELSE IF re[j] = ChBackslash THEN {re[j + 1]} \cup ClassCharsFrom(re, j + 2, e)
  ELSE {re[j]} \cup ClassCharsFrom(re, j + 1, e)
ClassChars(re, i, e) == ClassCharsFrom(re, i + 1, e)

\* The index of the `)` closing the group whose inside starts at re[j].
RECURSIVE ParenScan(_, _, _, _)
ParenScan(re, j, hi, depth) ==
  IF j > hi THEN 0
  ELSE IF re[j] = ChBackslash THEN ParenScan(re, j + 2, hi, depth)
  ELSE IF re[j] = ChLBracket
  THEN LET e == ClassEnd(re, j, hi)
       IN  IF e = 0 THEN 0 ELSE ParenScan(re, e + 1, hi, depth)
  ELSE IF re[j] = ChLParen THEN ParenScan(re, j + 1, hi, depth + 1)
  ELSE IF re[j] = ChRParen
  THEN IF depth = 0 THEN j ELSE ParenScan(re, j + 1, hi, depth - 1)
  ELSE ParenScan(re, j + 1, hi, depth)

\* The last index of the atom that starts at re[i].
AtomEnd(re, i, hi) ==
  IF re[i] = ChBackslash THEN IF i < hi THEN i + 1 ELSE 0
  ELSE IF re[i] = ChLParen THEN ParenScan(re, i + 1, hi, 0)
  ELSE IF re[i] = ChLBracket THEN ClassEnd(re, i, hi)
  ELSE i

\* Whether regexp.Compile accepts re[lo..hi] (MustCompile panics otherwise).
RECURSIVE RegExValid(_, _, _)
RegExValid(re, lo, hi) ==
  IF lo > hi THEN TRUE
  ELSE IF re[lo] \in {ChRParen, ChStar} THEN FALSE
  ELSE LET e == AtomEnd(re, lo, hi)
           next == IF e < hi /\ re[e + 1] = ChStar THEN e + 2 ELSE e + 1
       IN  /\ e # 0
           /\ re[lo] = ChLParen => RegExValid(re, lo + 1, e - 1)
           /\ RegExValid(re, IF re[lo] = ChBar THEN lo + 1 ELSE next, hi)

\* The first `|` of re[j..hi] outside groups and classes.
RECURSIVE FirstBar(_, _, _)
FirstBar(re, j, hi) ==
  IF j > hi THEN 0
  ELSE IF re[j] = ChBar THEN j
  ELSE FirstBar(re, AtomEnd(re, j, hi) + 1, hi)

\* The offsets of s at which a match of re[lo..hi] can end when it starts at
\* an offset of P (an offset counts the characters consumed).
RECURSIVE AltEnds(_, _, _, _, _)
RECURSIVE ConcatEnds(_, _, _, _, _)
RECURSIVE AtomEnds(_, _, _, _, _)
RECURSIVE StarEnds(_, _, _, _, _)
AltEnds(re, lo, hi, s, P) ==
  LET b == FirstBar(re, lo, hi)
  IN  IF b = 0 THEN ConcatEnds(re, lo, hi, s, P)
      ELSE ConcatEnds(re, lo, b - 1, s, P) \cup AltEnds(re, b + 1, hi, s, P)
ConcatEnds(re, lo, hi, s, P) ==
  IF lo > hi \/ P = {} THEN P
  ELSE LET e == AtomEnd(re, lo, hi)
           star == e < hi /\ re[e + 1] = ChStar
       IN  UNION {ConcatEnds(re, IF star THEN e + 2 ELSE e + 1, hi, s, Q) :
                    Q \in {IF star THEN StarEnds(re, lo, e, s, P)
                                   ELSE AtomEnds(re, lo, e, s, P)}}
AtomEnds(re, lo, e, s, P) ==
  LET step(ok(_)) == {p + 1 : p \in {q \in P : q < Len(s) /\ ok(s[q + 1])}}
      any(c) == TRUE
      lit(c) == c = re[e]
      class(c) == c \in ClassChars(re, lo, e)
  IN  IF re[lo] = ChLParen THEN AltEnds(re, lo + 1, e - 1, s, P)
      ELSE IF re[lo] = ChLBracket THEN step(class)
      ELSE IF re[lo] = ChDot THEN step(any)
      ELSE step(lit)
StarEnds(re, lo, e, s, P) ==
  UNION {IF Q \subseteq P THEN P ELSE StarEnds(re, lo, e, s, P \cup Q) :
           Q \in {AtomEnds(re, lo, e, s, P)}}

\* regexp.MatchString: the expression matches somewhere in s.
RegExMatchString(re, s) == AltEnds(re, 1, Len(re), s, 0..Len(s)) # {}

\* Message.Match(addr): "panic" when getRegEx's MustCompile panics.
MessageMatch(msg, addr) ==
  CHOOSE m \in {IF ~RegExValid(re, 1, Len(re)) THEN "panic"
                ELSE IF RegExMatchString(re, addr) THEN "match" ELSE "no match" :
                  re \in {getRegExSource(msg.Address)}} : TRUE

\* ======================================================================
\* The state machines
\* ======================================================================
VARIABLES
  cStep,      \* codec: "built", "marshalled" or "parsed"
  cInput,     \* codec: the Packet the caller built
  cWire,      \* codec: what MarshalBinary returned, [bytes, err]
  cParsed,    \* codec: what ParsePacket returned, [pkt, err, start, pos]
  handlers,   \* OSCDispatcher.handlers: the set of [addr, handler] entries
  regResult,  \* the last AddMsgHandler call, [addr, handler, err]
  tasks,      \* the goroutines (and timers) Dispatch has started
  calls,      \* the handler invocations so far, in order
  dispatched, \* number of Dispatch calls the application has made
  now,        \* the clock, in seconds
  crashed,    \* a goroutine has panicked: the process is gone
  servePc,    \* Serve: "idle", "receive", "sleep" or "returned"
  serveErr,   \* the error Serve returned
  tempDelay,  \* Serve's tempDelay, in milliseconds
  retries,    \* consecutive transient receive errors so far
  ctx,        \* the context passed to Serve, [kind, deadline, cancelled]
  connDeadline, \* the read deadline set on the connection, NoDeadline if none
  arrived,    \* number of datagrams that arrived so far
  lastRecv,   \* what the last ReceivePacket returned, [pkt, addr, err]
  watchers,   \* the deadlines of the contexts live watcher goroutines wait for
  recvPc,     \* a direct ReceivePacket call: "idle" or "reading"
  sock,       \* the datagrams queued in the socket, oldest first
  sent,       \* the datagrams the clients have sent, in arrival order
  returns     \* what the direct ReceivePacket calls returned, in order

codecVars == <<cStep, cInput, cWire, cParsed>>
dispVars == <<handlers, regResult, tasks, calls, dispatched, now, crashed>>
sockVars == <<recvPc, sock, sent, returns>>
serveVars ==
  <<servePc, serveErr, tempDelay, retries, ctx, connDeadline, arrived, lastRecv,
    watchers, sockVars>>
vars == <<codecVars, dispVars, serveVars>>

\* ------------------------------------------------------------ inputs
RECURSIVE SeqsUpTo(_, _)
SeqsUpTo(S, n) ==
  IF n = 0 THEN {<<>>}
  ELSE LET shorter == SeqsUpTo(S, n - 1)
       IN  shorter \cup {Append(q, x) : q \in {r \in shorter : Len(r) = n - 1}, x \in S}

AddressInputs == {<<Slash>>, <<Slash, ChA>>, <<Slash, ChA, ChB, ChC>>}

ArgInputs ==
  { [type |-> "nil", val |-> <<>>],
    [type |-> "bool", val |-> <<1>>],
    [type |-> "bool", val |-> <<0>>],
    [type |-> "int32", val |-> <<-2>>],
    [type |-> "int64", val |-> <<-1, 258>>],
    [type |-> "float32", val |-> <<1065353216>>],
    [type |-> "float64", val |-> <<1072693248, 0>>],
    [type |-> "string", val |-> <<>>],
    [type |-> "string", val |-> <<ChA, ChB, ChC>>],
    [type |-> "[]byte", val |-> <<1, 2>>],
    [type |-> "Timetag", val |-> <<0, 1>>],
    [type |-> "int", val |-> <<1>>] }

MessageInputs ==
  {NewMessage(a, args) : a \in AddressInputs, args \in SeqsUpTo(ArgInputs, MaxArgs)}

\* Bundles of exactly n Bundle nodes, and sequences of Bundles of n nodes in all.
BundleMessageInputs ==
  LET m1 == NewMessage(<<Slash, ChA>>, <<[type |-> "int32", val |-> <<258>>]>>)
      m2 == NewMessage(<<Slash, ChB, ChC>>, <<[type |-> "string", val |-> <<ChA>>]>>)
  IN  {<<>>, <<m1>>, <<m1, m2>>}
TimetagInputs == {<<0, 1>>, <<2, 0>>}

RECURSIVE BundlesOfSize(_)
RECURSIVE ForestsOfSize(_)
BundlesOfSize(n) ==
  { [kind |-> "Bundle", Timetag |-> tt, Messages |-> ms, Bundles |-> f] :
      tt \in TimetagInputs, ms \in BundleMessageInputs, f \in ForestsOfSize(n - 1) }
ForestsOfSize(n) ==
  IF n = 0 THEN {<<>>}
  ELSE UNION { { <<b>> \o f : b \in BundlesOfSize(k), f \in ForestsOfSize(n - k) } :
               k \in 1..n }

BundleInputs == UNION {BundlesOfSize(n) : n \in 1..MaxNodes}

\* Bundles with a child that MarshalBinary refuses (an argument of type int):
\* a child Message, the second of two child Messages, and a Message of a
\* nested Bundle.
UnencodableBundleInputs ==
  LET good == NewMessage(<<Slash, ChA>>, <<[type |-> "int32", val |-> <<258>>]>>)
      bad == NewMessage(<<Slash, ChA>>, <<[type |-> "int", val |-> <<1>>]>>)
      B(msgs, bundles) ==
        [kind |-> "Bundle", Timetag |-> <<0, 1>>, Messages |-> msgs, Bundles |-> bundles]
  IN  {B(<<bad>>, <<>>), B(<<good, bad>>, <<>>), B(<<good>>, <<B(<<bad>>, <<>>)>>)}

NoWire == [bytes |-> <<>>, err |-> ""]
NoParse == [pkt |-> NilPacket, err |-> "", start |-> 0, pos |-> 0]
NoDeadline == -1
NoRegistration == [addr |-> <<>>, handler |-> "", err |-> "no call"]
NoReceive == [pkt |-> NilPacket, addr |-> "", err |-> "no call"]
NoContext == [kind |-> "background", deadline |-> NoDeadline, cancelled |-> FALSE]

\* NewOSCDispatcher(): an empty registry, nothing dispatched.
DispatcherIdle ==
  /\ handlers = {}
  /\ regResult = NoRegistration
  /\ tasks = <<>>
  /\ calls = <<>>
  /\ dispatched = 0
  /\ now = 0
  /\ crashed = FALSE

\* NewServer(): Serve has not been called.
ServerIdle ==
  /\ servePc = "idle"
  /\ serveErr = ""
  /\ tempDelay = 0
  /\ retries = 0
  /\ ctx = NoContext
  /\ connDeadline = NoDeadline
  /\ arrived = 0
  /\ lastRecv = NoReceive
  /\ watchers = {}
  /\ recvPc = "idle"
  /\ sock = <<>>
  /\ sent = <<>>
  /\ returns = <<>>

CodecIdle ==
  /\ cStep = "idle"
  /\ cInput = NilPacket
  /\ cWire = NoWire
  /\ cParsed = NoParse

\* ------------------------------------------------------ codec: actions
CodecInit ==
  /\ cStep = "built"
  /\ cInput \in MessageInputs \cup BundleInputs \cup UnencodableBundleInputs
  /\ cWire = NoWire
  /\ cParsed = NoParse
  /\ DispatcherIdle
  /\ ServerIdle

\* pkt.MarshalBinary()
Marshal ==
  /\ cStep = "built"
  /\ cWire' = MarshalBinary(cInput)
  /\ cStep' = "marshalled"
  /\ UNCHANGED <<cInput, cParsed, dispVars, serveVars>>

\* ParsePacket(string(bytes)) of the bytes MarshalBinary returned
Parse ==
  /\ cStep = "marshalled"
  /\ cWire.err = ""
  /\ cParsed' = ParsePacket(cWire.bytes)
  /\ cStep' = "parsed"
  /\ UNCHANGED <<cInput, cWire, dispVars, serveVars>>

\* ---------------------------------------------------- the dispatcher
\* The characters AddMsgHandler refuses in an address.
ReservedChars_NoSpace ==
  {ChStar, ChQuestion, Comma, ChLBracket, ChRBracket, ChLBrace, ChRBrace, Hash}
ReservedChars ==
  {ChStar, ChQuestion, Comma, ChLBracket, ChRBracket, ChLBrace, ChRBrace, Hash,
   ChSpace}

Contains(str, chr) == \E i \in 1..Len(str) : str[i] = chr
HandlerAddrs(H) == {h.addr : h \in H}
\* A lookup that never finds the address, to test that formulas depend on
\* addressExists.
addressExists_Never(addr, H) == FALSE
addressExists(addr, H) == \E h \in H : h.addr = addr
HandlerAt(H, addr) == (CHOOSE h \in H : h.addr = addr).handler

\* AddMsgHandler: the error it returns ("" for nil).
AddMsgHandlerError(addr, H) ==
  IF \E chr \in ReservedChars : Contains(addr, chr)
  THEN "OSC Address string may not contain any characters in"
  ELSE IF addressExists(addr, H) THEN "OSC address exists already"
  ELSE ""

\* Server.Handle / OSCDispatcher.AddMsgHandler, called during setup: the map
\* is not synchronised, so the handlers are registered before any dispatch.
Handle(addr, handler) ==
  /\ ~crashed
  /\ servePc = "idle"
  /\ dispatched = 0
  /\ regResult' = [addr |-> addr, handler |-> handler,
                   err |-> AddMsgHandlerError(addr, handlers)]
  /\ handlers' = IF AddMsgHandlerError(addr, handlers) = ""
                 THEN handlers \cup {[addr |-> addr, handler |-> handler]}
                 ELSE handlers
  /\ UNCHANGED <<tasks, calls, dispatched, now, crashed, codecVars, serveVars>>

Immediate == <<0, 1>>
\* Timetag.ExpiresIn() at time t: the time left until the Timetag is due.
ExpiresIn(tt, t) == IF tt = Immediate THEN 0 ELSE Max(0, tt[1] - t)

\* The position of a goroutine that walks the messages of a packet: the range
\* over d.handlers of message mi has `todo` left to visit.
\* A walk that ends before it visits a handler, to test that formulas depend
\* on StartWalk.
StartWalk_Dropped(t, H) ==
  [t EXCEPT !.state = "done", !.mi = Len(t.msgs) + 1, !.todo = {}]
StartWalk(t, H) ==
  IF Len(t.msgs) >= 1 /\ H # {}
  THEN [t EXCEPT !.state = "run", !.mi = 1, !.todo = HandlerAddrs(H)]
  ELSE [t EXCEPT !.state = IF Len(t.bundles) = 0 THEN "done" ELSE "run",
                 !.mi = Len(t.msgs) + 1, !.todo = {}]
Advance(t, H) ==
  LET u == IF t.todo # {} \/ t.mi > Len(t.msgs) THEN t
           ELSE IF t.mi < Len(t.msgs)
           THEN [t EXCEPT !.mi = @ + 1, !.todo = HandlerAddrs(H)]
           ELSE [t EXCEPT !.mi = Len(t.msgs) + 1]
  IN  IF u.mi > Len(u.msgs) /\ u.bi > Len(u.bundles)
      THEN [u EXCEPT !.state = "done"] ELSE u

\* When the timer of a Bundle dispatched at time t fires.
TimerFiresAt_AtOnce(bundle, t) == t
TimerFiresAt(bundle, t) == t + ExpiresIn(bundle.Timetag, t)

\* A goroutine that ranges over bundle.Messages from the last to the first,
\* to test that formulas depend on the order of NewTask.
RECURSIVE Reverse(_)
Reverse(q) == IF q = <<>> THEN <<>> ELSE Append(Reverse(Tail(q)), Head(q))
NewTask_Reversed(pkt, t, H) ==
  IF pkt.kind = "Message"
  THEN StartWalk([kind |-> "Message", msgs |-> <<pkt>>, bundles |-> <<>>,
                  timetag |-> Immediate, fireAt |-> t, state |-> "run", mi |-> 1,
                  todo |-> {}, busy |-> FALSE, cur |-> <<>>, bi |-> 1], H)
  ELSE [kind |-> "Bundle", msgs |-> Reverse(pkt.Messages), bundles |-> pkt.Bundles,
        timetag |-> pkt.Timetag, fireAt |-> TimerFiresAt(pkt, t),
        state |-> "timer", mi |-> 1, todo |-> {}, busy |-> FALSE, cur |-> <<>>,
        bi |-> 1]

\* What Dispatch(pkt) starts at time t: for a Message, the walk over the
\* handlers (in the calling goroutine); for a Bundle, a timer and a goroutine
\* that waits for it.
NewTask(pkt, t, H) ==
  IF pkt.kind = "Message"
  THEN StartWalk([kind |-> "Message", msgs |-> <<pkt>>, bundles |-> <<>>,
                  timetag |-> Immediate, fireAt |-> t, state |-> "run", mi |-> 1,
                  todo |-> {}, busy |-> FALSE, cur |-> <<>>, bi |-> 1], H)
  ELSE [kind |-> "Bundle", msgs |-> pkt.Messages, bundles |-> pkt.Bundles,
        timetag |-> pkt.Timetag, fireAt |-> TimerFiresAt(pkt, t),
        state |-> "timer", mi |-> 1, todo |-> {}, busy |-> FALSE, cur |-> <<>>,
        bi |-> 1]

\* A goroutine that has run to its end is gone.
Live(t) == t.state # "done"
Reap(T) == SelectSeq(T, Live)

\* The tasks after Dispatch(pkt); Dispatch returns at once for any other type.
Dispatch(pkt, t, H, T) ==
  IF pkt.kind \in {"Message", "Bundle"}
  THEN Reap(Append(T, NewTask(pkt, t, H)))
  ELSE Reap(T)

\* d.Dispatch(pkt), called by the application's goroutine.  The handlers of a
\* Message run inside the call, so this goroutine is back for its next call
\* when they have returned.
DispatchPkt(pkt) ==
  /\ ~crashed
  /\ servePc = "idle"
  /\ \A i \in 1..Len(tasks) : tasks[i].kind # "Message"
  /\ dispatched < MaxDispatches
  /\ dispatched' = dispatched + 1
  /\ tasks' = Dispatch(pkt, now, handlers, tasks)
  /\ UNCHANGED <<handlers, regResult, calls, now, crashed, codecVars, serveVars>>

\* <-timer.C: the goroutine of a Bundle goes on once its timer has fired.
TimerFire(i) ==
  /\ ~crashed
  /\ tasks[i].state = "timer"
  /\ now >= tasks[i].fireAt
  /\ tasks' = Reap([tasks EXCEPT ![i] = StartWalk(@, handlers)])
  /\ UNCHANGED <<handlers, regResult, calls, dispatched, now, crashed, codecVars,
                 serveVars>>

\* One iteration of `for addr, handler := range d.handlers`: msg.Match(addr)
\* and, on a match, the call of the handler.
Visit(i, a) ==
  LET t == tasks[i]
  IN  /\ ~crashed
      /\ t.state = "run" /\ ~t.busy /\ t.mi <= Len(t.msgs)
      /\ a \in t.todo
      /\ \E m \in {MessageMatch(t.msgs[t.mi], a)} :
         /\ crashed' = (m = "panic")
         /\ calls' = IF m = "match"
                     THEN Append(calls, [kind |-> t.kind, addr |-> a,
                                         handler |-> HandlerAt(handlers, a),
                                         msg |-> t.msgs[t.mi],
                                         timetag |-> t.timetag])
                     ELSE calls
         /\ tasks' = Reap([tasks EXCEPT ![i] =
                             IF m = "match" THEN [t EXCEPT !.busy = TRUE, !.cur = a]
                             ELSE IF m = "panic" THEN t
                             ELSE Advance([t EXCEPT !.todo = @ \ {a}], handlers)])
         /\ UNCHANGED <<handlers, regResult, dispatched, now, codecVars, serveVars>>

\* The handler returns.
HandlerReturn(i) ==
  LET t == tasks[i]
  IN  /\ ~crashed
      /\ t.state = "run" /\ t.busy
      /\ tasks' = Reap([tasks EXCEPT ![i] =
                          Advance([t EXCEPT !.busy = FALSE, !.cur = <<>>,
                                            !.todo = @ \ {t.cur}], handlers)])
      /\ UNCHANGED <<handlers, regResult, calls, dispatched, now, crashed, codecVars,
                 serveVars>>

\* `for _, b := range bundle.Bundles { d.Dispatch(b) }`: one iteration.
DispatchNested(i) ==
  LET t == tasks[i]
  IN  /\ ~crashed
      /\ t.state = "run" /\ ~t.busy /\ t.mi > Len(t.msgs) /\ t.bi <= Len(t.bundles)
      /\ tasks' = Dispatch(t.bundles[t.bi], now, handlers,
                           [tasks EXCEPT ![i] = Advance([t EXCEPT !.bi = @ + 1],
                                                        handlers)])
      /\ UNCHANGED <<handlers, regResult, calls, dispatched, now, crashed, codecVars,
                 serveVars>>

\* Time passes.
Tick ==
  /\ ~crashed
  /\ now < MaxTime
  /\ now' = now + 1
  /\ UNCHANGED <<handlers, regResult, tasks, calls, dispatched, crashed, codecVars,
                 serveVars>>

TaskStep ==
  \E i \in 1..Len(tasks) :
    \/ TimerFire(i)
    \/ \E a \in tasks[i].todo : Visit(i, a)
    \/ HandlerReturn(i)
    \/ DispatchNested(i)

\* ---------------------------------------------------------- the server
\* A context: one of WithCancel (as long as nobody cancels it, it is
\* context.Background()), one of WithDeadline.
ContextInputs ==
  {[kind |-> "cancel", deadline |-> NoDeadline, cancelled |-> FALSE],
   [kind |-> "deadline", deadline |-> 1, cancelled |-> FALSE]}

\* <-ctx.Done() would not block.
CtxDone == ctx.cancelled \/ (ctx.deadline # NoDeadline /\ now >= ctx.deadline)

\* The datagrams a client sends.
GoodMessage == MessageMarshalBinary(NewMessage(<<Slash, ChA>>, <<>>)).bytes
GoodBundle ==
  LET m == NewMessage(<<Slash, ChA>>, <<>>)
      inner == NewBundle(Immediate)
      outer == BundleAppend(BundleAppend(NewBundle(<<1, 0>>), m).bundle, inner).bundle
  IN  BundleMarshalBinary(outer).bytes
DatagramInputs ==
  {GoodMessage,
   GoodBundle,
   <<Slash, ChA, NUL, NUL, TagInt32, NUL, NUL, NUL>>,         \* type tags without ','
   <<Slash, ChA, NUL, NUL, Comma, ChA, NUL, NUL>>,            \* type tag 'a'
   <<Hash, ChB, ChA, ChA, ChA, ChA, ChA, NUL,
     NUL, NUL, NUL, NUL, NUL, NUL, NUL, 1>>,                  \* "#baaaaa" bundle tag
   <<Slash, ChA, NUL, NUL>>,                                  \* no type tag string
   <<ChA, ChB, ChC, NUL>>}                                    \* neither '/' nor '#'

\* The errors of a decode the protocol defines.
DecodeErrors ==
  {"unsupported type tag string", "unsupported type tag", "Invalid bundle start tag"}

IsPanic(err) == err \in {"panic: index out of range", "panic: nil pointer dereference"}

\* The body of the `if ne.Temporary()` branch: the next tempDelay.
NextDelay_NoCap(d) == IF d = 0 THEN 5 ELSE d * 2
NextDelay(d) ==
  LET doubled == IF d = 0 THEN InitialDelay ELSE d * 2
  IN  IF doubled > MaxDelay THEN MaxDelay ELSE doubled

\* ReceivePacket after ReadFrom returned datagram d: [pkt, addr, err].
\* The decode inside ReceivePacket: the reader is over the whole buffer, of
\* which the datagram fills the first n bytes: [pkt, err, start, pos].
DecodeDatagram(d) == readPacket(NewReader(d, ReceiveBufferSize), 0, 0, Len(d))

ReceivePacket(d) ==
  LET r == DecodeDatagram(d)
  IN  IF r.err # "" THEN [pkt |-> NilPacket, addr |-> "", err |-> r.err]
      ELSE IF r.pkt = NilPacket   \* pkt.SetAddr(addr) on the nil Packet
      THEN [pkt |-> NilPacket, addr |-> "", err |-> "panic: nil pointer dereference"]
      ELSE [pkt |-> r.pkt, addr |-> "client", err |-> ""]

\* What ReceivePacket returns for each of the datagrams.
Received == [d \in DatagramInputs |-> ReceivePacket(d)]

\* The `go func() { select { case <-ctx.Done(): ... } }()` of ReceivePacket:
\* one more goroutine that waits for the context c.
Spawn_Unwatched(w, c) == w
Spawn(w, c) == w \cup {c.deadline}

\* <-ctx.Done() no longer blocks the watchers of the context with deadline d.
WatcherDone(d) ==
  \/ ctx.cancelled
  \/ d # NoDeadline /\ now >= d

\* The watchers of the context with deadline d log ctx.Err() and end.
WatcherExit(d) ==
  /\ ~crashed
  /\ WatcherDone(d)
  /\ watchers' = watchers \ {d}
  /\ UNCHANGED <<servePc, serveErr, tempDelay, retries, ctx, connDeadline, arrived,
                 lastRecv, sockVars, codecVars, dispVars>>

\* s.Serve(ctx, c) is called and reaches its first ReadFrom.
ServeStart(c) ==
  /\ ~crashed
  /\ servePc = "idle"
  /\ servePc' = "receive"
  /\ ctx' = c
  /\ connDeadline' = c.deadline
  /\ watchers' = Spawn(watchers, c)
  /\ UNCHANGED <<serveErr, tempDelay, retries, arrived, lastRecv, sockVars, codecVars,
                 dispVars>>

\* The read deadline of the connection has passed.
ReadTimedOut == connDeadline # NoDeadline /\ now >= connDeadline

\* May Serve go on to dispatch in the state it is in?  (`go` starts a
\* goroutine whatever the earlier ones are doing.)
CanReceive_Synchronous == tasks = <<>>
CanReceive == TRUE

\* c.ReadFrom returns datagram d; the rest of the iteration of Serve's loop.
ReceiveDatagram(d) ==
  \E r \in {Received[d]} :
      /\ ~crashed
      /\ servePc = "receive"
      /\ CanReceive
      /\ ~ReadTimedOut
      /\ arrived < MaxDatagrams
      /\ arrived' = arrived + 1
      /\ lastRecv' = r
      /\ crashed' = IsPanic(r.err)
      /\ IF r.err = ""
         THEN /\ tempDelay' = 0
              /\ retries' = 0
              /\ tasks' = Dispatch(r.pkt, now, handlers, tasks)
              /\ watchers' = Spawn(watchers, ctx)   \* the loop calls ReceivePacket again
              /\ UNCHANGED <<servePc, serveErr>>
         ELSE /\ servePc' = IF IsPanic(r.err) THEN servePc ELSE "returned"
              /\ serveErr' = IF IsPanic(r.err) THEN serveErr ELSE r.err
              /\ UNCHANGED <<tempDelay, retries, tasks, watchers>>
      /\ UNCHANGED <<ctx, connDeadline, handlers, regResult, calls, dispatched, now,
                     sockVars, codecVars>>

\* The branch of Serve for an error that is a temporary net.Error.
BackOff(err) ==
  /\ lastRecv' = [pkt |-> NilPacket, addr |-> "", err |-> err]
  /\ tempDelay' = NextDelay(tempDelay)
  /\ retries' = Min(retries + 1, MaxRetries)
  /\ servePc' = "sleep"
  /\ UNCHANGED <<serveErr, ctx, connDeadline, arrived, watchers, sockVars, codecVars,
                 dispVars>>

\* c.ReadFrom fails because the read deadline has passed: a net.Error whose
\* Temporary() is true.
ReceiveTimeout ==
  /\ ~crashed
  /\ servePc = "receive"
  /\ ReadTimedOut
  /\ BackOff("i/o timeout")

\* c.ReadFrom fails with another error, temporary or not.
ReceiveError(temporary) ==
  /\ ~crashed
  /\ servePc = "receive"
  /\ ~ReadTimedOut
  /\ IF temporary THEN BackOff("temporary read error")
     ELSE /\ lastRecv' = [pkt |-> NilPacket, addr |-> "", err |-> "read error"]
          /\ servePc' = "returned"
          /\ serveErr' = "read error"
          /\ UNCHANGED <<tempDelay, retries, ctx, connDeadline, arrived, watchers,
                         sockVars, codecVars,
                         dispVars>>

\* time.Sleep(tempDelay) returns; `continue` enters ReceivePacket again.
SleepDone ==
  /\ ~crashed
  /\ servePc = "sleep"
  /\ servePc' = "receive"
  /\ connDeadline' = ctx.deadline
  /\ watchers' = Spawn(watchers, ctx)
  /\ UNCHANGED <<serveErr, tempDelay, retries, ctx, arrived, lastRecv, sockVars,
                 codecVars,
                 dispVars>>

\* The owner of the context cancels it.
Cancel ==
  /\ ~crashed
  /\ servePc # "idle"
  /\ ctx.kind = "cancel" /\ ~ctx.cancelled
  /\ ctx' = [ctx EXCEPT !.cancelled = TRUE]
  /\ UNCHANGED <<servePc, serveErr, tempDelay, retries, connDeadline, arrived,
                 lastRecv, watchers, sockVars, codecVars, dispVars>>

ServeInit ==
  /\ CodecIdle
  /\ handlers = {[addr |-> <<Slash, ChA>>, handler |-> "h1"]}
  /\ regResult = NoRegistration
  /\ tasks = <<>>
  /\ calls = <<>>
  /\ dispatched = 0
  /\ now = 0
  /\ crashed = FALSE
  /\ ServerIdle

ServeNext ==
  \/ \E c \in ContextInputs : ServeStart(c)
  \/ \E d \in DatagramInputs : ReceiveDatagram(d)
  \/ ReceiveTimeout
  \/ \E temporary \in BOOLEAN : ReceiveError(temporary)
  \/ SleepDone
  \/ Cancel
  \/ \E d \in watchers : WatcherExit(d)
  \/ \E i \in 1..Len(tasks) : TimerFire(i)
  \/ \E i \in 1..Len(tasks) : \E a \in tasks[i].todo : Visit(i, a)
  \/ \E i \in 1..Len(tasks) : HandlerReturn(i)
  \/ \E i \in 1..Len(tasks) : DispatchNested(i)
  \/ Tick

SpecServe == ServeInit /\ [][ServeNext]_vars

\* Serve's own steps and the goroutines are scheduled; time passes.  What the
\* network and the owner of the context do is up to them.
FairServe ==
  /\ SpecServe
  /\ WF_vars(ReceiveTimeout)
  /\ WF_vars(SleepDone)
  /\ WF_vars(TaskStep)
  /\ WF_vars(Tick)

\* Serve with clients that send well-formed datagrams only, on a connection
\* whose only failures are the read deadline and a failure for good.
GoodDatagrams == {GoodMessage, GoodBundle}

DispatchedNext ==
  \/ \E c \in ContextInputs : ServeStart(c)
  \/ \E d \in GoodDatagrams : ReceiveDatagram(d)
  \/ ReceiveTimeout
  \/ ReceiveError(FALSE)
  \/ SleepDone
  \/ Cancel
  \/ \E d \in watchers : WatcherExit(d)
  \/ \E i \in 1..Len(tasks) : TimerFire(i)
  \/ \E i \in 1..Len(tasks) : \E a \in tasks[i].todo : Visit(i, a)
  \/ \E i \in 1..Len(tasks) : HandlerReturn(i)
  \/ \E i \in 1..Len(tasks) : DispatchNested(i)
  \/ Tick

SpecDispatched == ServeInit /\ [][DispatchedNext]_vars

FairDispatched ==
  /\ SpecDispatched
  /\ WF_vars(ReceiveTimeout)
  /\ WF_vars(SleepDone)
  /\ WF_vars(TaskStep)
  /\ WF_vars(Tick)

\* ------------------------------------- an application calling ReceivePacket
\* The variables of Serve's loop, which a direct caller of ReceivePacket
\* does not run.
loopVars == <<servePc, serveErr, tempDelay, retries, arrived>>

\* context.WithTimeout(context.Background(), timeout) at time t, with a
\* timeout of one tick of the clock.
WithTimeout(t) == [kind |-> "deadline", deadline |-> t + 1, cancelled |-> FALSE]

TimeoutError == [pkt |-> NilPacket, addr |-> "", err |-> "i/o timeout"]

\* A client sends datagram d: it is queued in the socket.
ClientSend(d) ==
  /\ ~crashed
  /\ Len(sent) < MaxDatagrams
  /\ sock' = Append(sock, d)
  /\ sent' = Append(sent, d)
  /\ UNCHANGED <<recvPc, returns, ctx, connDeadline, lastRecv, watchers, loopVars,
                 codecVars, dispVars>>

\* ReceivePacket(c, conn) up to its ReadFrom: the read deadline is set only if
\* the context has one, and the watcher goroutine is started.
CallReceivePacket(c) ==
  /\ ~crashed
  /\ servePc = "idle"
  /\ recvPc = "idle"
  /\ Len(returns) < MaxCalls
  /\ ctx' = c
  /\ connDeadline' = IF c.deadline # NoDeadline THEN c.deadline ELSE connDeadline
  /\ watchers' = Spawn(watchers, c)
  /\ recvPc' = "reading"
  /\ UNCHANGED <<sock, sent, returns, lastRecv, loopVars, codecVars, dispVars>>

\* c.ReadFrom(data) on a socket with the datagrams q queued.
ReadFrom_Newest(q) == [data |-> q[Len(q)], rest |-> SubSeq(q, 1, Len(q) - 1)]
ReadFrom(q) == [data |-> Head(q), rest |-> Tail(q)]

\* ReadFrom returns a datagram; ReceivePacket decodes it and returns.
ReadReturns ==
  /\ ~crashed
  /\ recvPc = "reading"
  /\ ~ReadTimedOut
  /\ sock # <<>>
  /\ \E r \in {ReadFrom(sock)} : \E res \in {Received[r.data]} :
        /\ sock' = r.rest
        /\ lastRecv' = res
        /\ returns' = Append(returns, res)
        /\ crashed' = IsPanic(res.err)
  /\ recvPc' = "idle"
  /\ UNCHANGED <<sent, ctx, connDeadline, watchers, loopVars, handlers, regResult,
                 tasks, calls, dispatched, now, codecVars>>

\* ReadFrom fails because the read deadline has passed; ReceivePacket
\* returns the error.
ReadTimesOut ==
  /\ ~crashed
  /\ recvPc = "reading"
  /\ ReadTimedOut
  /\ lastRecv' = TimeoutError
  /\ returns' = Append(returns, TimeoutError)
  /\ recvPc' = "idle"
  /\ UNCHANGED <<sock, sent, ctx, connDeadline, watchers, loopVars, codecVars,
                 dispVars>>

\* Time passes, long enough for every deadline that was set to pass.
ReceiveTick ==
  /\ ~crashed
  /\ now <= MaxTime
  /\ now' = now + 1
  /\ UNCHANGED <<handlers, regResult, tasks, calls, dispatched, crashed, codecVars,
                 serveVars>>

ReceiveNext ==
  \/ \E d \in DatagramInputs : ClientSend(d)
  \/ \E c \in {NoContext} \cup (IF now <= MaxTime THEN {WithTimeout(now)} ELSE {}) :
        CallReceivePacket(c)
  \/ ReadReturns
  \/ ReadTimesOut
  \/ \E d \in watchers : WatcherExit(d)
  \/ ReceiveTick

SpecReceive == ServeInit /\ [][ReceiveNext]_vars

\* The calls in progress and the goroutines are scheduled and time passes;
\* when clients send and when the application calls is up to them.
FairReceive ==
  /\ SpecReceive
  /\ WF_vars(ReadReturns)
  /\ WF_vars(ReadTimesOut)
  /\ WF_vars(\E d \in watchers : WatcherExit(d))
  /\ WF_vars(ReceiveTick)

\* ------------------------------------------- the dispatcher on its own
HandlerInputs == {"h1", "h2"}

\* Addresses offered to Handle: plain ones, and one with each special
\* character.
PlainAddresses == {<<Slash, ChA>>, <<Slash, ChB>>, <<Slash, ChA, Slash, ChB>>}
SpecialChars ==
  {ChStar, ChQuestion, Comma, ChLBracket, ChRBracket, ChLBrace, ChRBrace, Hash,
   ChSpace, ChDot}
RegisterInputs == PlainAddresses \cup {<<Slash, ChA, chr>> : chr \in SpecialChars}

DispatcherInit == CodecIdle /\ DispatcherIdle /\ ServerIdle

RegisterNext == \E addr \in RegisterInputs, h \in HandlerInputs : Handle(addr, h)

SpecRegister == DispatcherInit /\ [][RegisterNext]_vars

\* Packets handed to Dispatch: Messages, and Bundles that are due at once or
\* at time 1, flat and nested.
MsgA == NewMessage(<<Slash, ChA>>, <<>>)
BundleOf(tt, msgs, bundles) ==
  [kind |-> "Bundle", Timetag |-> tt, Messages |-> msgs, Bundles |-> bundles]
DispatchInputs ==
  {MsgA,
   BundleOf(<<1, 0>>, <<MsgA>>, <<>>),
   BundleOf(Immediate, <<MsgA>>, <<BundleOf(<<1, 0>>, <<MsgA>>, <<>>)>>)}

DispatchNext ==
  \/ Handle(<<Slash, ChA>>, "h1")
  \/ \E pkt \in DispatchInputs : DispatchPkt(pkt)
  \/ \E i \in 1..Len(tasks) : TimerFire(i)
  \/ \E i \in 1..Len(tasks) : \E a \in tasks[i].todo : Visit(i, a)
  \/ \E i \in 1..Len(tasks) : HandlerReturn(i)
  \/ \E i \in 1..Len(tasks) : DispatchNested(i)
  \/ Tick

SpecDispatch == DispatcherInit /\ [][DispatchNext]_vars

\* Bundles of several Messages and nested Bundles, each Message told from the
\* others by its argument, dispatched to two handlers; the Messages to "/*"
\* match both.
Numbered(addr, n) == NewMessage(addr, <<[type |-> "int32", val |-> <<n>>]>>)
OrderInputs ==
  {BundleOf(Immediate,
            <<Numbered(<<Slash, ChA>>, 1), Numbered(<<Slash, ChStar>>, 2)>>,
            <<BundleOf(<<1, 0>>,
                       <<Numbered(<<Slash, ChB>>, 3), Numbered(<<Slash, ChA>>, 4)>>,
                       <<>>),
              BundleOf(Immediate, <<Numbered(<<Slash, ChStar>>, 5)>>, <<>>)>>),
   BundleOf(<<1, 0>>,
            <<Numbered(<<Slash, ChB>>, 6)>>,
            <<BundleOf(Immediate,
                       <<Numbered(<<Slash, ChA>>, 7)>>,
                       <<BundleOf(Immediate, <<Numbered(<<Slash, ChB>>, 8)>>, <<>>)>>)>>)}

OrderInit ==
  /\ CodecIdle
  /\ ServerIdle
  /\ handlers = {[addr |-> <<Slash, ChA>>, handler |-> "h1"],
                 [addr |-> <<Slash, ChB>>, handler |-> "h2"]}
  /\ regResult = NoRegistration
  /\ tasks = <<>>
  /\ calls = <<>>
  /\ dispatched = 0
  /\ now = 0
  /\ crashed = FALSE

\* The application dispatches one Bundle.
DispatchOne(pkt) == dispatched = 0 /\ DispatchPkt(pkt)

OrderNext ==
  \/ \E pkt \in OrderInputs : DispatchOne(pkt)
  \/ \E i \in 1..Len(tasks) : TimerFire(i)
  \/ \E i \in 1..Len(tasks) : \E a \in tasks[i].todo : Visit(i, a)
  \/ \E i \in 1..Len(tasks) : HandlerReturn(i)
  \/ \E i \in 1..Len(tasks) : DispatchNested(i)
  \/ Tick

SpecOrder == OrderInit /\ [][OrderNext]_vars

\* Matching: the addresses registered and the address patterns of the
\* Messages dispatched.
MatchAddresses ==
  {<<Slash, ChA, Slash, ChB>>,
   <<Slash, ChA, Slash, ChB, Slash, ChC>>,
   <<Slash, ChC, Slash, ChA, Slash, ChB>>,
   <<Slash, ChA, ChDot, ChB>>}
PatternInputs ==
  {<<Slash, ChA, Slash, ChB>>,                                  \* /a/b
   <<Slash, ChA, Slash, ChStar>>,                               \* /a/*
   <<Slash, ChQuestion, Slash, ChB>>,                           \* /?/b
   <<Slash, ChLBrace, ChA, Comma, ChC, ChRBrace, Slash, ChB>>,  \* /{a,c}/b
   <<Slash, ChLBracket, ChA, ChC, ChRBracket, Slash, ChB>>,     \* /[ac]/b
   <<Slash, ChA, ChDot, ChB>>,                                  \* /a.b
   <<Slash, ChA, Slash, ChLBrace>>}                             \* /a/{

MatchNext ==
  \/ \E addr \in MatchAddresses : Handle(addr, "h1")
  \/ \E pattern \in PatternInputs : DispatchPkt(NewMessage(pattern, <<>>))
  \/ \E i \in 1..Len(tasks) : \E a \in tasks[i].todo : Visit(i, a)
  \/ \E i \in 1..Len(tasks) : HandlerReturn(i)

SpecMatch == DispatcherInit /\ [][MatchNext]_vars

CodecNext == Marshal \/ Parse

\* -------------------------------------------- type tags of a Message
\* The caller holds a Message, or a nil Message pointer.
TypeTagsInit ==
  /\ cStep = "built"
  /\ cInput \in MessageInputs \cup {NilMessage}
  /\ cWire = NoWire
  /\ cParsed = NoParse
  /\ DispatcherIdle
  /\ ServerIdle

\* msg.TypeTags(), after msg.MarshalBinary(): the string and the error.
TypeTagsCall ==
  /\ cStep = "marshalled"
  /\ \E r \in {TypeTags(cInput)} :
       cParsed' = [pkt |-> [kind |-> "tags", val |-> r.tags], err |-> r.err,
                   start |-> 0, pos |-> 0]
  /\ cStep' = "tagged"
  /\ UNCHANGED <<cInput, cWire, dispVars, serveVars>>

TypeTagsNext == Marshal \/ TypeTagsCall

SpecTypeTags == TypeTagsInit /\ [][TypeTagsNext]_vars

\* ------------------------------------ padded strings and blobs alone
StringInputs == SeqsUpTo({ChA, ChB}, MaxLen)
BlobInputs == SeqsUpTo({0, 255}, MaxLen)

\* The caller holds a string or a byte slice.
PrimitiveInit ==
  /\ cStep = "built"
  /\ cInput \in {[kind |-> "string", val |-> v] : v \in StringInputs}
               \cup {[kind |-> "blob", val |-> v] : v \in BlobInputs}
  /\ cWire = NoWire
  /\ cParsed = NoParse
  /\ DispatcherIdle
  /\ ServerIdle

\* writePaddedString(str, buf) into an empty buffer: the buffer and the count.
WritePaddedString ==
  /\ cStep = "built" /\ cInput.kind = "string"
  /\ \E r \in {writePaddedString(cInput.val)} :
       cWire' = [bytes |-> r.bytes, err |-> "", n |-> r.n]
  /\ cStep' = "written"
  /\ UNCHANGED <<cInput, cParsed, dispVars, serveVars>>

\* writeBlob(data, buf) into an empty buffer: the buffer and the count.
WriteBlob ==
  /\ cStep = "built" /\ cInput.kind = "blob"
  /\ \E r \in {writeBlob(cInput.val)} :
       cWire' = [bytes |-> r.bytes, err |-> "", n |-> r.n]
  /\ cStep' = "written"
  /\ UNCHANGED <<cInput, cParsed, dispVars, serveVars>>

\* readPaddedString(reader) over the bytes written.
ReadPaddedString ==
  /\ cStep = "written" /\ cInput.kind = "string"
  /\ \E r \in {readPaddedString(NewReader(cWire.bytes, Len(cWire.bytes)), 0)} :
       cParsed' = [pkt |-> [kind |-> "string", val |-> r.str], err |-> r.err,
                   start |-> r.n, pos |-> r.pos]
  /\ cStep' = "read"
  /\ UNCHANGED <<cInput, cWire, dispVars, serveVars>>

\* readBlob(reader) over the bytes written.
ReadBlob ==
  /\ cStep = "written" /\ cInput.kind = "blob"
  /\ \E r \in {readBlob(NewReader(cWire.bytes, Len(cWire.bytes)), 0)} :
       cParsed' = [pkt |-> [kind |-> "blob", val |-> r.blob], err |-> r.err,
                   start |-> r.n, pos |-> r.pos]
  /\ cStep' = "read"
  /\ UNCHANGED <<cInput, cWire, dispVars, serveVars>>

\* The bytes of a written string arrive cut short: only the first k of them.
Truncate(k) ==
  /\ cStep = "written" /\ cInput.kind = "string"
  /\ k < Len(cWire.bytes)
  /\ cWire' = [cWire EXCEPT !.bytes = SubSeq(cWire.bytes, 1, k)]
  /\ cStep' = "cut"
  /\ UNCHANGED <<cInput, cParsed, dispVars, serveVars>>

\* readPaddedString(reader) over the bytes that were cut short.
ReadCutString ==
  /\ cStep = "cut"
  /\ \E r \in {readPaddedString(NewReader(cWire.bytes, Len(cWire.bytes)), 0)} :
       cParsed' = [pkt |-> [kind |-> "string", val |-> r.str], err |-> r.err,
                   start |-> r.n, pos |-> r.pos]
  /\ cStep' = "read cut"
  /\ UNCHANGED <<cInput, cWire, dispVars, serveVars>>

PrimitiveNext ==
  \/ WritePaddedString
  \/ WriteBlob
  \/ ReadPaddedString
  \/ ReadBlob
  \/ \E k \in 0..(MaxLen + 4) : Truncate(k)
  \/ ReadCutString

SpecPrimitives == PrimitiveInit /\ [][PrimitiveNext]_vars

\* ------------------------------------------- the decoder on raw bytes
\* Well-formed encodings: a Message /a with one argument of each kind, one
\* with two arguments, a Bundle with a Message and a nested Bundle, and a
\* Bundle with two nested Bundles.
OneArgMessages ==
  {NewMessage(<<Slash, ChA>>, <<arg>>) :
     arg \in {x \in ArgInputs : x.type \in SupportedTypes}}
FullWires ==
  {MessageMarshalBinary(m).bytes : m \in OneArgMessages}
  \cup {MessageMarshalBinary(NewMessage(<<Slash, ChA, ChB, ChC>>, <<>>)).bytes,
        MessageMarshalBinary(NewMessage(<<Slash, ChA>>,
          <<[type |-> "int32", val |-> <<7>>],
            [type |-> "string", val |-> <<ChA, ChB, ChC>>]>>)).bytes,
        BundleMarshalBinary(BundleOf(<<1, 0>>,
          <<NewMessage(<<Slash, ChA>>, <<[type |-> "int32", val |-> <<7>>]>>)>>,
          <<BundleOf(Immediate, <<MsgA>>, <<>>)>>)).bytes,
        BundleMarshalBinary(BundleOf(<<1, 0>>, <<>>,
          <<BundleOf(Immediate, <<>>, <<>>), BundleOf(<<2, 0>>, <<>>, <<>>)>>)).bytes}

\* Every prefix of those (the whole, and every truncation).
Prefixes(w) == {SubSeq(w, 1, k) : k \in 0..Len(w)}

\* Inputs no encoder of this package writes.
CraftedWires ==
  {<<ChA, ChB, ChC, NUL>>,                                    \* neither '/' nor '#'
   <<NUL, NUL, NUL, NUL>>,
   <<Slash, ChA, NUL, NUL, TagInt32, NUL, NUL, NUL>>,         \* type tags "i"
   <<Slash, ChA, NUL, NUL, NUL, NUL, NUL, NUL>>,              \* type tags ""
   <<Slash, ChA, NUL, NUL, Comma, ChA, NUL, NUL>>,            \* type tags ",a"
   <<Slash, ChA, NUL, NUL, Comma, TagTrue, ChA, NUL>>,        \* type tags ",Ta"
   <<Slash, ChA, NUL, NUL, Comma, TagNil, NUL, NUL>>,         \* type tags ",N"
   <<Slash, ChA, NUL, NUL, Comma, TagTrue, TagFalse, NUL>>,   \* type tags ",TF"
   <<Slash, ChA, NUL, NUL, Comma, TagBlob, NUL, NUL,
     255, 255, 255, 255>>,                                    \* blob of length -1
   <<Slash, ChA, NUL, NUL, Comma, TagBlob, NUL, NUL,
     0, 0, 0, 64, 1, 2, 3, 4>>,                               \* blob of length 64
   <<Slash, ChA, NUL, NUL, Comma, TagBlob, NUL, NUL,
     0, 0, 0, 4, 1, 2, 3, 4>>,                                \* blob of length 4
   <<Hash, ChB, ChA, ChA, ChA, ChA, ChA, NUL,
     NUL, NUL, NUL, NUL, NUL, NUL, NUL, 1>>,                  \* "#baaaaa" bundle tag
   <<Slash, ChA, Slash, ChB, Slash, ChC, NUL, NUL,
     Comma, NUL, NUL, NUL>>,                                  \* /a/b/c, no arguments
   <<Slash, ChA, NUL, NUL, Comma, TagString, NUL, NUL,
     ChA, NUL, ChB, ChC>>}                                    \* pad bytes that are not NUL

WireInputs == (UNION {Prefixes(w) : w \in FullWires}) \cup CraftedWires

\* The caller holds the bytes w, from the network or from a file.
ParseInit ==
  /\ cStep = "marshalled"
  /\ cInput = NilPacket
  /\ cWire \in {[bytes |-> w, err |-> ""] : w \in WireInputs}
  /\ cParsed = NoParse
  /\ DispatcherIdle
  /\ ServerIdle

\* ReceivePacket when ReadFrom returned the bytes as one datagram: what it
\* returns, with the cursor and the reader's offset of its decode.
ReceiveWire ==
  /\ cStep = "marshalled"
  /\ cWire.err = ""
  /\ \E r \in {DecodeDatagram(cWire.bytes)} :
     \E p \in {ReceivePacket(cWire.bytes)} :
       cParsed' = [pkt |-> p.pkt, err |-> p.err, start |-> r.start, pos |-> r.pos]
  /\ cStep' = "received"
  /\ UNCHANGED <<cInput, cWire, dispVars, serveVars>>

\* pkt.MarshalBinary() of the packet ParsePacket returned: the caller now
\* holds that packet and its encoding.
ReMarshal ==
  /\ cStep = "parsed"
  /\ cParsed.err = "" /\ cParsed.pkt.kind # "nil"
  /\ cInput' = cParsed.pkt
  /\ cWire' = MarshalBinary(cParsed.pkt)
  /\ cStep' = "remarshalled"
  /\ UNCHANGED <<cParsed, dispVars, serveVars>>

ParseNext == Parse \/ ReceiveWire \/ ReMarshal

SpecParse == ParseInit /\ [][ParseNext]_vars

\* ------------------------------------- the decode of a Bundle, step by step
\* The decode of ParsePacket with the calls of readBundle that have not
\* returned yet made explicit: cParsed holds the Bundles they are building
\* (the innermost last), the cursor `start` and the reader's offset.
DecodeInputs ==
  (UNION {Prefixes(BundleMarshalBinary(b).bytes) : b \in OrderInputs})
  \cup CraftedWires

DecodeInit ==
  /\ cStep = "marshalled"
  /\ cInput = NilPacket
  /\ cWire \in {[bytes |-> w, err |-> ""] : w \in DecodeInputs}
  /\ cParsed = NoParse
  /\ DispatcherIdle
  /\ ServerIdle

InProgress(stack, start, pos) ==
  [pkt |-> [kind |-> "readBundle calls", val |-> stack], err |-> "",
   start |-> start, pos |-> pos]
Failed(err, start, pos) == [pkt |-> NilPacket, err |-> err, start |-> start, pos |-> pos]

\* readPacket of a '#' up to the loop of readBundle: the tag and the timetag
\* (with 0 for `end` the loop is not entered).
readBundleHead(R, pos, start) == readPacket(R, pos, start, 0)

\* `*start += 4` after the length of an element has been read.
AfterLength_Stuck(start) == start
AfterLength(start) == start + 4

\* ParsePacket(msg) is called: readPacket, and for a '#' readBundle up to its
\* loop.
DecodeBegin ==
  /\ cStep = "marshalled"
  /\ \E R \in {NewReader(cWire.bytes, Len(cWire.bytes))} :
       IF R.size > 0 /\ ByteAt(R, 1) = Hash
       THEN \E h \in {readBundleHead(R, 0, 0)} :
              IF h.err # ""
              THEN cParsed' = h /\ cStep' = "parsed"
              ELSE /\ cParsed' = InProgress(<<h.pkt>>, h.start, h.pos)
                   /\ cStep' = "decoding"
       ELSE cParsed' = readPacket(R, 0, 0, R.size) /\ cStep' = "parsed"
  /\ UNCHANGED <<cInput, cWire, dispVars, serveVars>>

\* One iteration of the loop of the innermost readBundle: the length, then
\* readPacket, which for a '#' calls readBundle again.
DecodeElement ==
  /\ cStep = "decoding"
  /\ cParsed.start < Len(cWire.bytes)
  /\ \E R \in {NewReader(cWire.bytes, Len(cWire.bytes))} :
     \E len \in {readFixed(R, cParsed.pos, 4)} :
       LET stack == cParsed.pkt.val
           start == AfterLength(cParsed.start)
       IN  IF len.err # ""
           THEN cParsed' = Failed(len.err, cParsed.start, len.pos) /\ cStep' = "parsed"
           ELSE IF R.size - len.pos > 0 /\ ByteAt(R, len.pos + 1) = Hash
           THEN \E h \in {readBundleHead(R, len.pos, start)} :
                  IF h.err # ""
                  THEN cParsed' = h /\ cStep' = "parsed"
                  ELSE /\ cParsed' = InProgress(Append(stack, h.pkt), h.start, h.pos)
                       /\ cStep' = "decoding"
           ELSE \E p \in {readPacket(R, len.pos, start, R.size)} :
                \E a \in {BundleAppend(stack[Len(stack)], p.pkt)} :
                  IF p.err # ""
                  THEN cParsed' = p /\ cStep' = "parsed"
                  ELSE IF a.err # ""
                  THEN cParsed' = Failed(a.err, p.start, p.pos) /\ cStep' = "parsed"
                  ELSE /\ cParsed' = InProgress([stack EXCEPT ![Len(stack)] = a.bundle],
                                                p.start, p.pos)
                       /\ cStep' = "decoding"
  /\ UNCHANGED <<cInput, cWire, dispVars, serveVars>>

\* The loop of the innermost readBundle ends: it returns its Bundle, to the
\* loop of the readBundle that called it or to the caller of ParsePacket.
DecodeReturn ==
  /\ cStep = "decoding"
  /\ ~(cParsed.start < Len(cWire.bytes))
  /\ LET stack == cParsed.pkt.val
         n == Len(stack)
     IN  IF n = 1
         THEN /\ cParsed' = [cParsed EXCEPT !.pkt = stack[1]]
              /\ cStep' = "parsed"
         ELSE /\ cParsed' =
                   InProgress(Append(SubSeq(stack, 1, n - 2),
                                     BundleAppend(stack[n - 1], stack[n]).bundle),
                              cParsed.start, cParsed.pos)
              /\ cStep' = "decoding"
  /\ UNCHANGED <<cInput, cWire, dispVars, serveVars>>

DecodeNext == DecodeBegin \/ DecodeElement \/ DecodeReturn

SpecDecode == DecodeInit /\ [][DecodeNext]_vars

SpecCodec == CodecInit /\ [][CodecNext]_vars

\* ======================================================================
\* Claims
\* ======================================================================

\* C1: every Message whose address begins with '/' and whose arguments are
\* of the supported types decodes, from the bytes MarshalBinary produced, to
\* a Message with the same address and the same ordered arguments and types.
C1_MessageRoundTrip ==
  (/\ cStep = "parsed"
   /\ cInput.kind = "Message"
   /\ cInput.Address[1] = Slash
   /\ \A i \in 1..Len(cInput.Arguments) : cInput.Arguments[i].type \in SupportedTypes)
  => (cParsed.err = "" /\ cParsed.pkt = cInput)

\* C2: every Bundle decodes, from the bytes Bundle.MarshalBinary produced, to
\* a Bundle with the same Timetag and, at every level, the same ordered child
\* Messages and child Bundles.
C2_BundleRoundTrip ==
  (cStep = "parsed" /\ cInput.kind = "Bundle")
  => (cParsed.err = "" /\ cParsed.pkt = cInput)


\* C3: a datagram whose decode fails with a protocol-level decode error
\* (unsupported type tag, invalid type-tag string, invalid bundle tag) is
\* dropped: Serve is still serving afterwards, it has neither returned nor
\* crashed.
C3_MalformedDatagramDropped ==
  (lastRecv.err \in DecodeErrors) => (servePc \in {"receive", "sleep"} /\ ~crashed)

\* C4: once the context of a running Serve is done (cancelled, or its deadline
\* has passed), Serve eventually returns; it does not wait in a receive or
\* retry for ever.
C4_ServeStopsWhenDone ==
  (servePc \in {"receive", "sleep"} /\ CtxDone /\ ~crashed)
    ~> (servePc = "returned" \/ crashed)

RECURSIVE Pow2(_)
Pow2(n) == IF n = 0 THEN 1 ELSE 2 * Pow2(n - 1)

\* C5: while Serve sleeps after k consecutive transient receive errors the
\* delay is min(5 ms * 2^(k-1), 1 s), never below 5 ms and never above 1 s; and
\* after a successful receive the delay is reset, so that the next transient
\* error is the first of its run.
C5_BackoffSequence ==
  /\ servePc = "sleep" =>
       /\ retries >= 1
       /\ tempDelay = Min(5 * Pow2(retries - 1), 1000)
       /\ tempDelay >= 5 /\ tempDelay <= 1000
  /\ (servePc = "receive" /\ lastRecv.err = "") => (tempDelay = 0 /\ retries = 0)

\* Serve has slept the capped delay, after a datagram had been received.
C5_Witness ==
  servePc = "sleep" /\ retries = 9 /\ tempDelay = 1000 /\ arrived >= 1

HandlerRunning == \E i \in 1..Len(tasks) : tasks[i].busy
ReceiveReturns == (\E d \in DatagramInputs : ReceiveDatagram(d)) \/ ReceiveTimeout

\* C6: while a handler of an earlier packet is running (it may never return),
\* Serve, waiting in its receive, takes the next datagram as soon as there is
\* one: nothing in the loop waits for the handler.
C6_ReceiveNotBlocked ==
  (servePc = "receive" /\ ~crashed /\ arrived < MaxDatagrams /\ HandlerRunning)
    => ENABLED ReceiveReturns

\* Two datagrams were received and dispatched, and the handlers of both are
\* running.
C6_Witness ==
  /\ arrived >= 2
  /\ servePc = "receive"
  /\ Len(tasks) >= 2
  /\ tasks[1].busy /\ tasks[2].busy


\* The time at which a Timetag is due (0 for "immediately").
DueTime(tt) == IF tt = <<0, 1>> THEN 0 ELSE tt[1]

\* C7: no handler is invoked for a Message of a Bundle before the due time of
\* that Bundle's Timetag; Dispatch returns without waiting for the due time
\* (its caller can go on while the timer is pending); and the timer of a Bundle
\* that is due fires whatever other timers are still pending.
C7_DeferredBundleDispatch ==
  /\ [][Len(calls') > Len(calls)
          => now >= DueTime(calls'[Len(calls')].timetag)]_vars
  /\ []((/\ ~crashed /\ servePc = "idle" /\ dispatched < MaxDispatches
         /\ tasks # <<>>
         /\ \A i \in 1..Len(tasks) : tasks[i].state = "timer")
          => ENABLED (\E pkt \in DispatchInputs : DispatchPkt(pkt)))
  /\ [](\A i \in 1..Len(tasks) :
          (~crashed /\ tasks[i].state = "timer" /\ now >= DueTime(tasks[i].timetag))
            => ENABLED TimerFire(i))

\* The handler of a Bundle that was due at once has run while the timer of a
\* Bundle due at time 1 was pending, and the handler of that one ran later.
C7_Witness ==
  /\ Len(calls) >= 2
  /\ calls[1].kind = "Bundle" /\ calls[1].timetag = <<0, 1>>
  /\ calls[2].kind = "Bundle" /\ calls[2].timetag = <<1, 0>>
  /\ dispatched = 2

\* An address without any of the wildcard characters of OSC.
IsLiteral(addr) == \A i \in 1..Len(addr) : addr[i] \notin {42, 63, 91, 93, 123, 125}

\* C8: a Message whose address is a literal equal to a registered address
\* invokes the handler registered at that address and no handler registered at
\* another address.
C8_ExactDispatch ==
  \A k \in 1..Len(calls) :
    (IsLiteral(calls[k].msg.Address)
      /\ \E h \in handlers : h.addr = calls[k].msg.Address)
      => calls[k].addr = calls[k].msg.Address

\* OSC pattern matching, of the whole address: '*' any run of characters, '?'
\* one character, '{a,b}' alternatives, '[...]' a character class, every
\* other character itself.
RECURSIVE IndexFrom(_, _, _)
IndexFrom(p, i, chr) ==
  IF i > Len(p) THEN 0 ELSE IF p[i] = chr THEN i ELSE IndexFrom(p, i + 1, chr)

\* The alternatives of p[i..e], separated by ','.
RECURSIVE Alternatives(_, _, _)
Alternatives(p, i, e) ==
  LET c == IndexFrom(p, i, 44)
  IN  IF c = 0 \/ c > e THEN {SubSeq(p, i, e)}
      ELSE {SubSeq(p, i, c - 1)} \cup Alternatives(p, c + 1, e)

WellFormed(p) ==
  /\ \A i \in 1..Len(p) : p[i] = 123 => IndexFrom(p, i, 125) # 0
  /\ \A i \in 1..Len(p) : p[i] = 91 => IndexFrom(p, i, 93) > i + 1
  /\ \A i \in 1..Len(p) : p[i] = 125 => \E j \in 1..i : p[j] = 123
  /\ \A i \in 1..Len(p) : p[i] = 93 => \E j \in 1..i : p[j] = 91

RECURSIVE OscMatchFrom(_, _, _, _)
OscMatchFrom(p, i, a, j) ==
  IF i > Len(p) THEN j > Len(a)
  ELSE IF p[i] = 42 THEN \E k \in j..(Len(a) + 1) : OscMatchFrom(p, i + 1, a, k)
  ELSE IF p[i] = 63 THEN j <= Len(a) /\ OscMatchFrom(p, i + 1, a, j + 1)
  ELSE IF p[i] = 91
  THEN /\ j <= Len(a)
       /\ \E x \in (i + 1)..(IndexFrom(p, i, 93) - 1) : p[x] = a[j]
       /\ OscMatchFrom(p, IndexFrom(p, i, 93) + 1, a, j + 1)
  ELSE IF p[i] = 123
  THEN \E alt \in Alternatives(p, i + 1, IndexFrom(p, i, 125) - 1) :
         /\ j + Len(alt) - 1 <= Len(a)
         /\ SubSeq(a, j, j + Len(alt) - 1) = alt
         /\ OscMatchFrom(p, IndexFrom(p, i, 125) + 1, a, j + Len(alt))
  ELSE j <= Len(a) /\ a[j] = p[i] /\ OscMatchFrom(p, i + 1, a, j + 1)
OscMatch(pattern, addr) == OscMatchFrom(pattern, 1, addr, 1)

\* C9: a handler is invoked for a dispatched Message only if its registered
\* address matches the Message's address, read as an OSC address pattern; and
\* once a Message has been dispatched, every handler whose address matches
\* has been invoked, once.
C9_PatternDispatch ==
  /\ \A k \in 1..Len(calls) :
       WellFormed(calls[k].msg.Address)
         => OscMatch(calls[k].msg.Address, calls[k].addr)
  /\ (dispatched = 1 /\ tasks = <<>> /\ ~crashed /\ calls # <<>>
      /\ WellFormed(calls[1].msg.Address))
       => \A h \in handlers :
            OscMatch(calls[1].msg.Address, h.addr)
              => Cardinality({k \in 1..Len(calls) : calls[k].addr = h.addr}) = 1

\* An address with one of the characters * ? , [ ] { } # or a space.
HasReserved(addr) ==
  \E i \in 1..Len(addr) : addr[i] \in {42, 63, 44, 91, 93, 123, 125, 35, 32}

\* C10: a Handle call with an address that has a reserved character returns
\* an error and leaves the registry as it was; one with an address that has
\* none and is not registered yet returns no error and the registry gains
\* exactly that entry.
C10_RegistrationValidation ==
  [][LET r == regResult'
     IN  /\ HasReserved(r.addr) => (r.err # "" /\ handlers' = handlers)
         /\ (~HasReserved(r.addr) /\ \A h \in handlers : h.addr # r.addr)
              => /\ r.err = ""
                 /\ handlers' = handlers \cup {[addr |-> r.addr,
                                                handler |-> r.handler]}]_vars

\* An address with a space was refused while two handlers were registered.
C10_Witness ==
  /\ regResult.err # "" /\ \E i \in 1..Len(regResult.addr) : regResult.addr[i] = 32
  /\ Cardinality(handlers) = 2

\* C11: every registered address maps to exactly one handler, the one of its
\* first successful registration: an entry, once stored, stays as it is; and
\* an AddMsgHandler call for an address that is registered already returns
\* an error and leaves the whole registry as it was.
C11_RegistryUniqueness ==
  /\ [](\A h1 \in handlers : \A h2 \in handlers :
          h1.addr = h2.addr => h1.handler = h2.handler)
  /\ [][/\ \A h \in handlers : h \in handlers'
        /\ (\E h \in handlers : h.addr = regResult'.addr)
             => (regResult'.err # "" /\ handlers' = handlers)]_vars

\* A second registration of /a, with another handler, was refused; /a keeps
\* its first handler and another address is registered as well.
C11_Witness ==
  /\ regResult.err # ""
  /\ regResult.addr = <<47, 97>>
  /\ \E h \in handlers : h.addr = regResult.addr /\ h.handler # regResult.handler
  /\ Cardinality(handlers) >= 2

\* The number of handler invocations a Message is entitled to: the handlers
\* registered at its address.
Entitled(msg) == Cardinality({h \in handlers : h.addr = msg.Address})

\* The invocations owed to the Messages k.. of a sequence, to the Bundles j..
\* of a sequence (at every level), and to a goroutine Dispatch has started.
RECURSIVE OwedToMessages(_, _)
OwedToMessages(msgs, k) ==
  IF k > Len(msgs) THEN 0 ELSE Entitled(msgs[k]) + OwedToMessages(msgs, k + 1)
RECURSIVE OwedToBundles(_, _)
OwedToBundles(bundles, j) ==
  IF j > Len(bundles) THEN 0
  ELSE OwedToMessages(bundles[j].Messages, 1) + OwedToBundles(bundles[j].Bundles, 1)
       + OwedToBundles(bundles, j + 1)
OwedToTask(t) ==
  IF t.state = "timer"
  THEN OwedToMessages(t.msgs, 1) + OwedToBundles(t.bundles, 1)
  ELSE (IF t.mi <= Len(t.msgs)
        THEN Cardinality({a \in t.todo : a = t.msgs[t.mi].Address
                                          /\ ~(t.busy /\ a = t.cur)})
        ELSE 0)
       + OwedToMessages(t.msgs, t.mi + 1) + OwedToBundles(t.bundles, t.bi)
RECURSIVE OwedFrom(_, _)
OwedFrom(T, i) == IF i > Len(T) THEN 0 ELSE OwedToTask(T[i]) + OwedFrom(T, i + 1)
Owed == OwedFrom(tasks, 1)

\* Serve's context is done, or Serve has returned.
ServeStopped == servePc # "idle" /\ (CtxDone \/ servePc = "returned")

\* C12: what was handed to Dispatch is not retracted.  No step takes away an
\* invocation that is owed to a dispatched packet (the invocations made plus
\* the invocations owed never go down); and once the context is done or
\* Serve has returned, the goroutines and timers of the dispatched packets,
\* nested Bundles included, run to their end (where nothing is owed any
\* more), as long as the process is not brought down by a panic.
C12_CancellationKeepsDispatchedWork ==
  /\ [][~crashed' => Len(calls') + Owed' >= Len(calls) + Owed]_vars
  /\ (ServeStopped /\ tasks # <<>>) ~> (crashed \/ (tasks = <<>> /\ Owed = 0))

\* The context's deadline (time 1) has passed and Serve is still retrying;
\* the Bundle due at time 1, received before the deadline, has had its
\* handler invoked and its nested Bundle dispatched, and nothing is pending.
C12_Witness ==
  /\ ctx.kind = "deadline" /\ now >= 1 /\ ~crashed
  /\ \E k \in 1..Len(calls) : calls[k].kind = "Bundle" /\ calls[k].timetag = <<1, 0>>
  /\ tasks = <<>>
  /\ arrived >= 1

\* C13: ParsePacket of an empty input returns an error; of an input that
\* begins with '/' it returns a Message or the error of the Message decoder;
\* of one that begins with '#', a Bundle or an error; of one that begins with
\* any other byte, no packet and no error, and nothing has been consumed.
C13_PacketSniffing ==
  cStep = "parsed" =>
    LET w == cWire.bytes
    IN  /\ Len(w) = 0 => (cParsed.err # "" /\ cParsed.pkt.kind = "nil")
        /\ (Len(w) > 0 /\ w[1] = 47) =>
             /\ cParsed.err = "" => cParsed.pkt.kind = "Message"
             /\ cParsed.err # "Invalid bundle start tag"
        /\ (Len(w) > 0 /\ w[1] = 35) =>
             (cParsed.err = "" => cParsed.pkt.kind = "Bundle")
        /\ (Len(w) > 0 /\ w[1] \notin {47, 35}) =>
             /\ cParsed.err = "" /\ cParsed.pkt.kind = "nil"
             /\ cParsed.start = 0 /\ cParsed.pos = 0

\* An input that begins with neither '/' nor '#' has been parsed.
C13_Witness ==
  /\ cStep = "parsed" /\ Len(cWire.bytes) = 4 /\ cWire.bytes[1] = 97
  /\ cParsed.pkt.kind = "nil" /\ cParsed.err = ""

\* The number of elements of the Bundle encoding w from offset pos on, each
\* taken to be as long as its 4-byte length prefix says.
RECURSIVE ElementsByPrefix(_, _)
ElementsByPrefix(w, pos) ==
  IF pos + 4 > Len(w) THEN 0
  ELSE LET len == (w[pos + 1] * 16777216) + (w[pos + 2] * 65536)
                  + (w[pos + 3] * 256) + w[pos + 4]
       IN  1 + ElementsByPrefix(w, pos + 4 + len)

\* C14: after a successful decode of a packet, by ParsePacket or by
\* ReceivePacket, the cursor equals the number of bytes given (the length of
\* the string, the size of the datagram); and a decoded Bundle has one child
\* for each element its length prefixes delimit, no element having taken
\* bytes beyond its own prefix.
C14_ConsumesDeclaredLength ==
  (cStep \in {"parsed", "received"} /\ cParsed.err = "" /\ cParsed.pkt.kind # "nil")
    => /\ cParsed.start = Len(cWire.bytes)
       /\ cParsed.pkt.kind = "Bundle" =>
            Len(cParsed.pkt.Messages) + Len(cParsed.pkt.Bundles)
              = ElementsByPrefix(cWire.bytes, 16)

\* The padded string of w that begins at index from: the index of its NUL (0
\* if there is none) and the index of its last pad byte.
RECURSIVE NulFrom(_, _)
NulFrom(w, i) == IF i > Len(w) THEN 0 ELSE IF w[i] = 0 THEN i ELSE NulFrom(w, i + 1)
PaddedEnd(w, from) == from + (4 * (((NulFrom(w, from) - from) \div 4) + 1)) - 1
CompleteString(w, from) == NulFrom(w, from) # 0 /\ PaddedEnd(w, from) <= Len(w)

\* The type of the argument each supported type tag stands for.
TagType(c) ==
  CASE c = 105 -> "int32" [] c = 104 -> "int64" [] c = 102 -> "float32"
    [] c = 100 -> "float64" [] c = 115 -> "string" [] c = 98 -> "[]byte"
    [] c = 116 -> "Timetag" [] c \in {84, 70} -> "bool" [] c = 78 -> "nil"
    [] OTHER -> "unsupported"

\* C15: ParsePacket of a Message with a complete padded address and a
\* complete padded type-tag string returns the invalid-type-tag-string error
\* when that string is empty or does not begin with ','; returns the
\* unsupported-type-tag error when a tag outside i h f d s b t T F N follows
\* tags without payload; succeeds when every tag is one without payload
\* (T, F, N); and when it succeeds on supported tags, the Message has one
\* argument per tag, of the tag's type, in order.
C15_TypeTagValidation ==
  (/\ cStep = "parsed"
   /\ Len(cWire.bytes) > 0 /\ cWire.bytes[1] = 47
   /\ CompleteString(cWire.bytes, 1)
   /\ CompleteString(cWire.bytes, PaddedEnd(cWire.bytes, 1) + 1))
  => LET w == cWire.bytes
         from == PaddedEnd(w, 1) + 1
         tags == SubSeq(w, from, NulFrom(w, from) - 1)
         bad == {i \in 2..Len(tags) : TagType(tags[i]) = "unsupported"}
     IN  /\ (tags = <<>> \/ tags[1] # 44)
              => cParsed.err = "unsupported type tag string"
         /\ (tags # <<>> /\ tags[1] = 44 /\ bad # {}
              /\ \A i \in 2..Len(tags) :
                   (\A j \in bad : i < j) => tags[i] \in {84, 70, 78})
              => cParsed.err = "unsupported type tag"
         /\ (tags # <<>> /\ tags[1] = 44
              /\ \A i \in 2..Len(tags) : tags[i] \in {84, 70, 78})
              => cParsed.err = ""
         /\ (tags # <<>> /\ tags[1] = 44 /\ bad = {} /\ cParsed.err = "")
              => /\ Len(cParsed.pkt.Arguments) = Len(tags) - 1
                 /\ \A i \in 2..Len(tags) :
                      cParsed.pkt.Arguments[i - 1].type = TagType(tags[i])

\* Are the payloads of the tags i.. of a type-tag string all within w, the
\* first of them beginning after index pos?
RECURSIVE PayloadsComplete(_, _, _, _)
PayloadsComplete(w, tags, i, pos) ==
  IF i > Len(tags) THEN TRUE
  ELSE LET c == tags[i]
       IN  CASE c \in {105, 102} ->
                  pos + 4 <= Len(w) /\ PayloadsComplete(w, tags, i + 1, pos + 4)
             [] c \in {104, 100, 116} ->
                  pos + 8 <= Len(w) /\ PayloadsComplete(w, tags, i + 1, pos + 8)
             [] c = 115 ->
                  CompleteString(w, pos + 1)
                    /\ PayloadsComplete(w, tags, i + 1, PaddedEnd(w, pos + 1))
             [] c = 98 ->
                  /\ pos + 4 <= Len(w)
                  /\ LET len == (w[pos + 1] * 16777216) + (w[pos + 2] * 65536)
                                 + (w[pos + 3] * 256) + w[pos + 4]
                         end == pos + 4 + (4 * ((len + 3) \div 4))
                     IN  end <= Len(w) /\ PayloadsComplete(w, tags, i + 1, end)
             [] OTHER -> PayloadsComplete(w, tags, i + 1, pos)

\* The bytes of a Message that end before its address, its type-tag string
\* or the payload of one of its (supported) tags is complete.
Truncated(w) ==
  /\ Len(w) > 0 /\ w[1] = 47
  /\ \/ ~CompleteString(w, 1)
     \/ ~CompleteString(w, PaddedEnd(w, 1) + 1)
     \/ LET from == PaddedEnd(w, 1) + 1
            tags == SubSeq(w, from, NulFrom(w, from) - 1)
        IN  /\ tags # <<>> /\ tags[1] = 44
            /\ \A i \in 2..Len(tags) : TagType(tags[i]) # "unsupported"
            /\ ~PayloadsComplete(w, tags, 2, PaddedEnd(w, from))

\* C16: ParsePacket of truncated bytes, and ReceivePacket of a truncated
\* datagram, return an error and no packet.
C16_TruncatedInputIsFatal ==
  (cStep \in {"parsed", "received"} /\ Truncated(cWire.bytes))
    => (cParsed.err # "" /\ cParsed.pkt.kind = "nil")

\* A Message /a.. whose first type tag is 'b', with its address and type-tag
\* string complete: the index before the blob, and the blob's declared length
\* (0 when fewer than 4 bytes are left for it).
BlobFirst(w) ==
  /\ Len(w) > 0 /\ w[1] = 47
  /\ CompleteString(w, 1)
  /\ CompleteString(w, PaddedEnd(w, 1) + 1)
  /\ LET from == PaddedEnd(w, 1) + 1
     IN  NulFrom(w, from) >= from + 2 /\ w[from] = 44 /\ w[from + 1] = 98
BlobAt(w) == PaddedEnd(w, PaddedEnd(w, 1) + 1)
DeclaredLength(w) ==
  LET p == BlobAt(w)
  IN  IF p + 4 > Len(w) THEN 0
      ELSE LET low == ((w[p + 1] % 128) * 16777216) + (w[p + 2] * 65536)
                      + (w[p + 3] * 256) + w[p + 4]
           IN  IF w[p + 1] >= 128 THEN (low - 2147483647) - 1 ELSE low
BadLength(w) ==
  /\ BlobAt(w) + 4 <= Len(w)
  /\ (DeclaredLength(w) < 0 \/ BlobAt(w) + 4 + DeclaredLength(w) > Len(w))

\* The kind of each error the decoder returns.
ErrorKind(err) ==
  CASE err \in {"EOF", "unexpected EOF"} -> "TruncatedInput"
    [] err = "unsupported type tag string" -> "InvalidTypeTagString"
    [] err = "unsupported type tag" -> "UnsupportedTypeTag"
    [] err = "Invalid bundle start tag" -> "InvalidBundleTag"
    [] err = "Unsupported OSC packet type" -> "UnsupportedPacket"
    [] err = "binary.Read: invalid type *int" -> "InvalidType"
    [] err = "" -> "none"
    [] OTHER -> "panic"

C18_BlobRoundTrip ==
  (cStep = "read" /\ cInput.kind = "blob")
    => /\ cParsed.err = ""
       /\ cParsed.pkt.val = cInput.val
       /\ cParsed.start = Len(cWire.bytes)
       /\ cParsed.start >= 4 /\ (cParsed.start - 4) % 4 = 0

\* C19: writeBlob writes the 4 bytes of len(d), most significant first, then
\* d, then the fewest zero bytes (0 to 3) that reach a multiple of 4: none
\* when len(d) is a multiple of 4.
C19_BlobFraming ==
  (cStep = "written" /\ cInput.kind = "blob")
    => LET d == cInput.val
           w == cWire.bytes
           pad == (4 - (Len(d) % 4)) % 4
       IN  /\ Len(w) = 4 + Len(d) + pad
           /\ SubSeq(w, 1, 4) = <<0, 0, 0, Len(d)>>
           /\ SubSeq(w, 5, 4 + Len(d)) = d
           /\ \A i \in (5 + Len(d))..Len(w) : w[i] = 0

\* C20: for the length n of every string s, padBytesNeeded(n) is between 1
\* and 4 and n + padBytesNeeded(n) is a multiple of 4; writePaddedString
\* writes s followed by NUL bytes only, a multiple of 4 and at least
\* len(s) + 1 bytes in all, and returns the number of bytes it wrote, which
\* is len(s) + padBytesNeeded(len(s)).
C20_PaddingInvariant ==
  (cStep = "written" /\ cInput.kind = "string")
    => LET str == cInput.val
           w == cWire.bytes
           n == Len(str)
       IN  /\ padBytesNeeded(n) \in 1..4
           /\ (n + padBytesNeeded(n)) % 4 = 0
           /\ SubSeq(w, 1, n) = str
           /\ \A i \in (n + 1)..Len(w) : w[i] = 0
           /\ Len(w) % 4 = 0 /\ Len(w) >= n + 1
           /\ cWire.n = Len(w)
           /\ cWire.n = n + padBytesNeeded(n)

\* A string of 4 bytes has been written: 4 NUL bytes follow it.
C20_Witness ==
  /\ cStep = "written" /\ cInput.kind = "string" /\ Len(cInput.val) = 4
  /\ Len(cWire.bytes) = 8 /\ cWire.n = 8

\* The tag of an argument of a supported type.
ArgTag(arg) ==
  CASE arg.type = "nil" -> 78
    [] arg.type = "bool" -> IF arg.val = <<1>> THEN 84 ELSE 70
    [] arg.type = "int32" -> 105 [] arg.type = "int64" -> 104
    [] arg.type = "float32" -> 102 [] arg.type = "float64" -> 100
    [] arg.type = "string" -> 115 [] arg.type = "[]byte" -> 98
    [] arg.type = "Timetag" -> 116
    [] OTHER -> 0

\* C21: of a Message whose arguments are all of supported types, TypeTags
\* returns ',' and one tag per argument, in order, which is the type-tag
\* string MarshalBinary writes after the padded address; of a nil Message,
\* and of a Message with an argument of another type, TypeTags returns an
\* error, and MarshalBinary returns an error and no bytes.
C21_TypeTagDerivation ==
  cStep = "tagged" =>
    IF cInput # [kind |-> "nil Message"]
       /\ \A i \in 1..Len(cInput.Arguments) : ArgTag(cInput.Arguments[i]) # 0
    THEN /\ cParsed.err = ""
         /\ cParsed.pkt.val
              = <<44>> \o [i \in 1..Len(cInput.Arguments) |-> ArgTag(cInput.Arguments[i])]
         /\ cWire.err = ""
         /\ LET from == PaddedEnd(cWire.bytes, 1) + 1
            IN  SubSeq(cWire.bytes, from, NulFrom(cWire.bytes, from) - 1)
                  = cParsed.pkt.val
    ELSE /\ cParsed.err # "" /\ cParsed.pkt.val = <<>>
         /\ cWire.err \notin {"", "panic: nil pointer dereference"}
         /\ cWire.bytes = <<>>

\* The padded string of w that begins at index from is complete and padded
\* with NUL bytes only.
WellPadded(w, from) ==
  /\ CompleteString(w, from)
  /\ \A i \in NulFrom(w, from)..PaddedEnd(w, from) : w[i] = 0

\* The index of the last byte of the payloads of the tags i.. of a type-tag
\* string, the first payload beginning after index pos; -1 if a payload is
\* not whole or not padded with NUL bytes.
RECURSIVE PayloadsEnd(_, _, _, _)
PayloadsEnd(w, tags, i, pos) ==
  IF i > Len(tags) THEN pos
  ELSE LET c == tags[i]
       IN  CASE c \in {105, 102} ->
                  IF pos + 4 <= Len(w) THEN PayloadsEnd(w, tags, i + 1, pos + 4) ELSE -1
             [] c \in {104, 100, 116} ->
                  IF pos + 8 <= Len(w) THEN PayloadsEnd(w, tags, i + 1, pos + 8) ELSE -1
             [] c = 115 ->
                  IF WellPadded(w, pos + 1)
                  THEN PayloadsEnd(w, tags, i + 1, PaddedEnd(w, pos + 1)) ELSE -1
             [] c = 98 ->
                  IF pos + 4 > Len(w) \/ w[pos + 1] # 0 THEN -1
                  ELSE LET len == (w[pos + 2] * 65536) + (w[pos + 3] * 256) + w[pos + 4]
                           end == pos + 4 + (4 * ((len + 3) \div 4))
                       IN  IF end <= Len(w)
                              /\ \A k \in (pos + 5 + len)..end : w[k] = 0
                           THEN PayloadsEnd(w, tags, i + 1, end) ELSE -1
             [] c \in {84, 70, 78} -> PayloadsEnd(w, tags, i + 1, pos)
             [] OTHER -> -1

\* A well-formed OSC message: a padded address, a padded type-tag string of
\* ',' and supported tags, the payloads of those tags, and nothing else.
WellFormedMessage(w) ==
  /\ Len(w) > 0 /\ w[1] = 47
  /\ WellPadded(w, 1)
  /\ WellPadded(w, PaddedEnd(w, 1) + 1)
  /\ LET from == PaddedEnd(w, 1) + 1
         tags == SubSeq(w, from, NulFrom(w, from) - 1)
     IN  /\ tags # <<>> /\ tags[1] = 44
         /\ PayloadsEnd(w, tags, 2, PaddedEnd(w, from)) = Len(w)

\* C22: ParsePacket of a well-formed OSC message succeeds, and MarshalBinary
\* of the Message it returns writes the same bytes; so for "/a/b/c" without
\* arguments, the address padded to 8 bytes and "," padded to 4.
C22_ReencodeReproducesBytes ==
  /\ []((cStep = "parsed" /\ WellFormedMessage(cWire.bytes))
          => (cParsed.err = "" /\ cParsed.pkt.kind = "Message"))
  /\ [][(cStep' = "remarshalled" /\ WellFormedMessage(cWire.bytes))
          => (cWire'.err = "" /\ cWire'.bytes = cWire.bytes)]_vars

\* The 4 bytes of a number below 2^31, most significant first.
Word(n) == <<n \div 16777216, (n \div 65536) % 256, (n \div 256) % 256, n % 256>>

\* The elements i.. of a list of children, each as the 4-byte length of its
\* own encoding followed by that encoding.
RECURSIVE Frames(_, _)
Frames(elems, i) ==
  IF i > Len(elems) THEN <<>>
  ELSE Word(Len(MarshalBinary(elems[i]).bytes)) \o MarshalBinary(elems[i]).bytes
       \o Frames(elems, i + 1)

\* Does every child of the Bundle encode?
ChildrenEncode(b) ==
  /\ \A i \in 1..Len(b.Messages) : MarshalBinary(b.Messages[i]).err = ""
  /\ \A i \in 1..Len(b.Bundles) : MarshalBinary(b.Bundles[i]).err = ""

\* C23: Bundle.MarshalBinary writes "#bundle" and a NUL, the 8 bytes of the
\* Timetag, every child Message in list order and then every nested Bundle
\* in list order, each after the 4-byte big-endian length of its own
\* encoding; if a child does not encode it returns an error and no bytes.
C23_BundleLayout ==
  (cStep \in {"marshalled", "parsed"} /\ cInput.kind = "Bundle")
    => IF ChildrenEncode(cInput)
       THEN /\ cWire.err = ""
            /\ cWire.bytes
                 = <<35, 98, 117, 110, 100, 108, 101, 0>>
                   \o Word(cInput.Timetag[1]) \o Word(cInput.Timetag[2])
                   \o Frames(cInput.Messages, 1) \o Frames(cInput.Bundles, 1)
       ELSE cWire.err # "" /\ cWire.bytes = <<>>

\* A Bundle of two Messages and two nested Bundles has been encoded.
C23_Witness ==
  /\ cStep = "marshalled" /\ cInput.kind = "Bundle" /\ cWire.err = ""
  /\ Len(cInput.Messages) = 2 /\ Len(cInput.Bundles) = 2

\* What the calls that did not time out returned.
Delivered == SelectSeq(returns, LAMBDA r : r # TimeoutError)

\* C24: a ReceivePacket whose read deadline passes returns the timeout error
\* and no packet, once (one return, no second read), and takes nothing from
\* the socket; the datagrams are returned to the calls in arrival order and
\* none is lost: what the calls returned and what is still queued are the
\* datagrams sent.
C24_ReceiveTimeout ==
  /\ [](/\ Len(Delivered) + Len(sock) = Len(sent)
        /\ \A i \in 1..Len(Delivered) : Delivered[i] = ReceivePacket(sent[i])
        /\ \A j \in 1..Len(sock) : sock[j] = sent[Len(Delivered) + j])
  /\ [][(recvPc = "reading" /\ ReadTimedOut /\ recvPc' = "idle")
          => /\ returns' = Append(returns, TimeoutError)
             /\ TimeoutError.pkt = NilPacket
             /\ sock' = sock]_vars

\* As in TestReadTimeout: a datagram was received, the next call timed out,
\* and the call after it returned the datagram that arrived later.
C24_Witness ==
  /\ Len(returns) = 3
  /\ returns[1].err = "" /\ returns[2] = TimeoutError /\ returns[3].err = ""
  /\ returns[1].pkt # returns[3].pkt
  /\ ctx.deadline # NoDeadline

\* C25: ReceivePacket returns normally for every datagram (a packet, no
\* packet or an error, never a panic), and a packet it returns carries the
\* sender's address.
C25_ReceivePacketTotal ==
  /\ ~crashed
  /\ \A i \in 1..Len(returns) :
        /\ ~IsPanic(returns[i].err)
        /\ (returns[i].pkt # NilPacket) => (returns[i].addr = "client")

\* Where each Message of a Bundle is: the path of its Bundle from the root
\* (the indices in the Bundles lists), its index in that Bundle's Messages and
\* the Timetag of that Bundle.
RECURSIVE Places(_, _)
Places(b, path) ==
  {[msg |-> b.Messages[i], path |-> path, idx |-> i, timetag |-> b.Timetag] :
     i \in 1..Len(b.Messages)}
  \cup UNION {Places(b.Bundles[j], Append(path, j)) : j \in 1..Len(b.Bundles)}

PlaceOf(msg) ==
  CHOOSE p \in UNION {Places(b, <<>>) : b \in OrderInputs} : p.msg = msg

\* Is Bundle path p a proper ancestor of Bundle path q?
Ancestor(p, q) == Len(p) < Len(q) /\ SubSeq(q, 1, Len(p)) = p

\* C26: of one dispatched Bundle, the handlers of the Messages of a Bundle are
\* invoked in the order of its Messages list, all of them before any handler
\* of a Bundle nested in it, and no handler of a nested Bundle before the
\* due time of that Bundle's own Timetag.
C26_OrderInsideBundle ==
  /\ [](dispatched = 1
          => \A k, l \in 1..Len(calls) :
               k < l =>
                 /\ PlaceOf(calls[k].msg).path = PlaceOf(calls[l].msg).path
                      => PlaceOf(calls[k].msg).idx <= PlaceOf(calls[l].msg).idx
                 /\ ~Ancestor(PlaceOf(calls[l].msg).path, PlaceOf(calls[k].msg).path))
  /\ [][Len(calls') > Len(calls)
          => now >= DueTime(PlaceOf(calls'[Len(calls')].msg).timetag)]_vars

\* The whole of the first Bundle has been handled: 7 handler invocations, the
\* last Message of the nested Bundle that was due later among them.
C26_Witness ==
  /\ dispatched = 1
  /\ Len(calls) = 7
  /\ \E k \in 1..Len(calls) : calls[k].msg = Numbered(<<Slash, ChA>>, 4)
  /\ tasks = <<>>

\* C27: from a string s followed by its NUL terminator and the NUL padding to
\* the 4-byte boundary, readPaddedString returns s and the count
\* len(s) + padBytesNeeded(len(s)) and leaves the reader right after the
\* padding; from bytes that end before the NUL, or before the last padding
\* byte, it returns an error.
C27_ReadPaddedString ==
  LET full == Len(cInput.val) + 4 * (Len(cInput.val) \div 4 + 1) - Len(cInput.val)
  IN  /\ (cStep = "read" /\ cInput.kind = "string")
        => /\ cParsed.err = ""
           /\ cParsed.pkt.val = cInput.val
           /\ cParsed.start = full
           /\ cParsed.pos = full
      /\ (cStep = "read cut" /\ Len(cWire.bytes) < full) => cParsed.err # ""

\* What is left of a decode: the bytes between the cursor and the end of the
\* input, and the readBundle calls that have not returned.
DecodeRank ==
  IF cStep = "parsed" THEN 0
  ELSE IF cStep = "marshalled" THEN (Len(cWire.bytes) + 2) * (Len(cWire.bytes) + 2)
  ELSE 1 + Len(cParsed.pkt.val)
       + (Len(cWire.bytes) + 1) * Max(0, Len(cWire.bytes) - cParsed.start)

\* C28: the decode of every input ends: every step of it brings it nearer to
\* its end (fewer bytes between the cursor and the end of the input, or as
\* many and fewer readBundle calls in progress).  Every iteration of the loop
\* of readBundle returns an error or moves the cursor forward; every
\* readBundle call that has not returned has consumed a tag and a timetag of
\* 8 bytes each and, but for the outermost, a length of 4 bytes, so that
\* their number is bounded by the length of the input; and what the decode
\* returns is what ParsePacket returns.
C28_DecodeTerminates ==
  /\ [][DecodeRank' < DecodeRank]_vars
  /\ [](DecodeRank >= 0)
  /\ [][(cStep = "decoding" /\ cParsed.start < Len(cWire.bytes))
          => \/ cStep' = "parsed" /\ cParsed'.err # ""
             \/ cStep' = "decoding" /\ cParsed'.start > cParsed.start]_vars
  /\ [](cStep = "decoding"
          => /\ 20 * Len(cParsed.pkt.val) - 4 <= cParsed.start
             /\ 20 * Len(cParsed.pkt.val) - 4 <= Len(cWire.bytes))
  /\ [](cStep = "parsed"
          => /\ cParsed.pkt = ParsePacket(cWire.bytes).pkt
             /\ cParsed.err = ParsePacket(cWire.bytes).err)

\* Three calls of readBundle are in progress, nested in one another.
C28_Witness ==
  /\ cStep = "decoding"
  /\ Len(cParsed.pkt.val) = 3
  /\ Len(cParsed.pkt.val[3].Messages) = 1

\* C29: the watcher goroutines that ReceivePacket calls have started all end
\* in time (unless a panic ends the process first): none is left for good.
C29_NoLeftoverWatchers == (watchers # {}) ~> (watchers = {} \/ crashed)

=============================================================================
